---- MODULE Spec2Model ----
(***************************************************************************)
(* The league stats pipeline of collect_weekly_stats.py: stat-id mapping,  *)
(* fantasy-point scoring, category leaders, and the merge of one week into *)
(* the persisted season document (weekly_stats.json); its command line;    *)
(* and the projection fetchers fetch_projections.py and                    *)
(* fetch_ros_projections.py, which write one document per system.          *)
(*                                                                         *)
(* Numbers.  Python floats are modelled as exact decimals: an integer n    *)
(* stands for n/1000.  round(x, 1) and round(x, 2) round the exact value   *)
(* to the nearest multiple of 100 and of 10, ties to the even neighbour    *)
(* (Python rounds the binary float, so on an exact decimal tie the         *)
(* direction may differ; no formula below depends on the direction).       *)
(*                                                                         *)
(* Dictionaries.  A StatRecord is [team_key, team_name, manager, stats]    *)
(* where stats is the dictionary of the numeric keys (stat names, Points,  *)
(* ERA, K/9) as a function; the order of keys inside a record is not       *)
(* modelled.  The weeks dictionary keeps its insertion order: it is a      *)
(* sequence of [key, entry] pairs.                                         *)
(***************************************************************************)
EXTENDS Integers, Sequences, FiniteSets, TLC

VARIABLES file, resp, log, inv, docs, fetched, runs

vars == <<file, resp, log, inv, docs, fetched, runs>>

-----------------------------------------------------------------------------
(* Bounds of the model *)

\* weeks of the season the provider can report as current
MaxWeek == 2

\* longest provider stat list of one team in the single-week specification
MaxFeedLen == 2

\* players a long projection source has beyond the truncation length
MaxOver == 2

\* largest count of games and of starts tried on the position rule
MaxGames == 3

-----------------------------------------------------------------------------
(* Configuration, lines 38-68 *)

SEASON == 2026

BATTING_SCORING ==
    ("1B" :> 2600) @@ ("2B" :> 5200) @@ ("3B" :> 7800) @@ ("HR" :> 10400) @@
    ("RBI" :> 1900) @@ ("R" :> 1900) @@ ("BB" :> 2600) @@ ("HBP" :> 2600) @@
    ("SB" :> 4200) @@ ("CS" :> -2600) @@ ("SO" :> -1000) @@ ("IBB" :> 0) @@
    ("CYC" :> 10000) @@ ("SLAM" :> 10000)

PITCHING_SCORING ==
    ("IP" :> 5000) @@ ("W" :> 4000) @@ ("L" :> -4000) @@ ("SV" :> 8000) @@
    ("HLD" :> 4000) @@ ("ER" :> -3000) @@ ("H" :> -1000) @@ ("BB" :> -1000) @@
    ("K" :> 3000) @@ ("QS" :> 4000) @@ ("CG" :> 5000) @@ ("SHO" :> 5000) @@
    ("NH" :> 10000) @@ ("PICK" :> 2000)

\* BATTING_STAT_IDS with batter strikeouts under the scoring table's name
BATTING_STAT_IDS_so ==
    (60 :> "1B") @@ (61 :> "2B") @@ (62 :> "3B") @@ (63 :> "HR") @@
    (13 :> "RBI") @@ (12 :> "R") @@ (18 :> "BB") @@ (17 :> "HBP") @@
    (15 :> "SB") @@ (16 :> "CS") @@ (14 :> "SO") @@ (76 :> "IBB") @@
    (93 :> "CYC") @@ (75 :> "SLAM")

BATTING_STAT_IDS ==
    (60 :> "1B") @@ (61 :> "2B") @@ (62 :> "3B") @@ (63 :> "HR") @@
    (13 :> "RBI") @@ (12 :> "R") @@ (18 :> "BB") @@ (17 :> "HBP") @@
    (15 :> "SB") @@ (16 :> "CS") @@ (14 :> "K") @@ (76 :> "IBB") @@
    (93 :> "CYC") @@ (75 :> "SLAM")

PITCHING_STAT_IDS ==
    (50 :> "IP") @@ (28 :> "W") @@ (29 :> "L") @@ (32 :> "SV") @@
    (48 :> "HLD") @@ (27 :> "ER") @@ (25 :> "H") @@ (39 :> "BB") @@
    (42 :> "K") @@ (63 :> "QS") @@ (34 :> "CG") @@ (35 :> "SHO") @@
    (54 :> "NH") @@ (77 :> "PICK")

-----------------------------------------------------------------------------
(* Python primitives *)

\* d.get(k, default)
Get(d, k, default) == IF k \in DOMAIN d THEN d[k] ELSE default

\* d[k] = v
Put(d, k, v) == [x \in DOMAIN d \cup {k} |-> IF x = k THEN v ELSE d[x]]

\* a * b of two decimals (exact: every product formed here is a whole
\* number of thousandths)
Mul(a, b) == (a * b) \div 1000

\* the integer nearest to num/den (den > 0), ties to even
RoundHalfEven(num, den) ==
    LET q == num \div den
        r == num - q * den
    IN  IF 2 * r < den THEN q
        ELSE IF 2 * r > den THEN q + 1
        ELSE IF q % 2 = 0 THEN q ELSE q + 1

\* round(num / den, ndigits) for ndigits in {1, 2}; num and den are decimals
\* (or both plain integers), den > 0
RoundDiv(num, den, ndigits) ==
    LET unit == IF ndigits = 1 THEN 100 ELSE 10
    IN  unit * RoundHalfEven(num * (1000 \div unit), den)

\* round(x, ndigits)
Round(x, ndigits) == RoundDiv(x, 1000, ndigits)

\* float(value) of the strings float() accepts among the provider's values
FloatOf == ("0.7" :> 700) @@ ("1" :> 1000) @@ ("2" :> 2000)

\* safe_float(value): a value float() rejects ("-", the provider's blank)
\* resolves to the default 0.0
safe_float(value) == IF value \in DOMAIN FloatOf THEN FloatOf[value] ELSE 0

-----------------------------------------------------------------------------
(* get_team_stats, lines 295-356 *)

\* HittingStep that assigns the stat's points instead of adding them
HittingStep_assign(hitting, stat) ==
    LET stat_id == stat.stat_id
        value == safe_float(stat.value)
    IN  IF stat_id \in DOMAIN BATTING_STAT_IDS
        THEN LET stat_name == BATTING_STAT_IDS[stat_id]
                 h == Put(hitting, stat_name, value)
             IN  IF stat_name \in DOMAIN BATTING_SCORING
                 THEN Put(h, "Points", Mul(value, BATTING_SCORING[stat_name]))
                 ELSE h
        ELSE hitting

\* HittingStep that keeps an entry of an unmapped stat_id under its own key
HittingStep_keep(hitting, stat) ==
    LET stat_id == stat.stat_id
        value == safe_float(stat.value)
    IN  IF stat_id \in DOMAIN BATTING_STAT_IDS
        THEN LET stat_name == BATTING_STAT_IDS[stat_id]
                 h == Put(hitting, stat_name, value)
             IN  IF stat_name \in DOMAIN BATTING_SCORING
                 THEN Put(h, "Points",
                          h["Points"] + Mul(value, BATTING_SCORING[stat_name]))
                 ELSE h
        ELSE Put(hitting, "unmapped", value)

\* the loop body of lines 319-333 on the hitting dictionary
HittingStep(hitting, stat) ==
    LET stat_id == stat.stat_id
        value == safe_float(stat.value)
    IN  IF stat_id \in DOMAIN BATTING_STAT_IDS
        THEN LET stat_name == BATTING_STAT_IDS[stat_id]
                 h == Put(hitting, stat_name, value)
             IN  IF stat_name \in DOMAIN BATTING_SCORING
                 THEN Put(h, "Points",
                          h["Points"] + Mul(value, BATTING_SCORING[stat_name]))
                 ELSE h
        ELSE hitting

\* the loop body of lines 319-333 on the pitching dictionary
PitchingStep(pitching, stat) ==
    LET stat_id == stat.stat_id
        value == safe_float(stat.value)
    IN  IF stat_id \in DOMAIN PITCHING_STAT_IDS
        THEN LET stat_name == PITCHING_STAT_IDS[stat_id]
                 p == Put(pitching, stat_name, value)
             IN  IF stat_name \in DOMAIN PITCHING_SCORING
                 THEN Put(p, "Points",
                          p["Points"] + Mul(value, PITCHING_SCORING[stat_name]))
                 ELSE p
        ELSE pitching

\* the loop of line 319 over team_stats['stats'], in list order
RECURSIVE StatLoop(_, _)
StatLoop(acc, stats) ==
    IF stats = << >> THEN acc
    ELSE StatLoop([hitting |-> HittingStep(acc.hitting, Head(stats)),
                   pitching |-> PitchingStep(acc.pitching, Head(stats))],
                  Tail(stats))

\* WeeklyRates that cuts the rates to two decimals instead of rounding them
WeeklyRates_truncate(pitching) ==
    IF "IP" \in DOMAIN pitching /\ pitching["IP"] > 0
    THEN LET ip == pitching["IP"]
         IN  Put(Put(pitching, "ERA", 10 * ((Get(pitching, "ER", 0) * 900) \div ip)),
                 "K/9", 10 * ((Get(pitching, "K", 0) * 900) \div ip))
    ELSE Put(Put(pitching, "ERA", 0), "K/9", 0)

\* lines 335-341: the rate stats of a weekly pitching dictionary
WeeklyRates(pitching) ==
    IF "IP" \in DOMAIN pitching /\ pitching["IP"] > 0
    THEN LET ip == pitching["IP"]
         IN  Put(Put(pitching, "ERA", RoundDiv(Get(pitching, "ER", 0) * 9, ip, 2)),
                 "K/9", RoundDiv(Get(pitching, "K", 0) * 9, ip, 2))
    ELSE Put(Put(pitching, "ERA", 0), "K/9", 0)

\* lines 306-347: the two records of one team whose stats were fetched
TeamRecords(team) ==
    LET acc == StatLoop([hitting |-> ("Points" :> 0), pitching |-> ("Points" :> 0)],
                        team.stats)
        h == acc.hitting
        p == WeeklyRates(acc.pitching)
    IN  [hitting |-> [stats |-> Put(h, "Points", Round(h["Points"], 1)),
                      team_key |-> team.team_key, team_name |-> team.name,
                      manager |-> team.nickname],
         pitching |-> [stats |-> Put(p, "Points", Round(p["Points"], 1)),
                       team_key |-> team.team_key, team_name |-> team.name,
                       manager |-> team.nickname]]

RECURSIVE get_team_stats(_)

\* get_team_stats whose loop ends at the first team that raises
get_team_stats_abort(teams) ==
    IF teams = << >> THEN [hitting |-> << >>, pitching |-> << >>]
    ELSE LET team == Head(teams)
         IN  IF team.ok
             THEN LET r == TeamRecords(team)
                      rest == get_team_stats(Tail(teams))
                  IN  [hitting |-> <<r.hitting>> \o rest.hitting,
                       pitching |-> <<r.pitching>> \o rest.pitching]
             ELSE [hitting |-> << >>, pitching |-> << >>]

\* get_team_stats over the provider's teams, in the provider's order; a team
\* whose fetch raised (ok = FALSE) is skipped by the except clause
get_team_stats(teams) ==
    IF teams = << >> THEN [hitting |-> << >>, pitching |-> << >>]
    ELSE LET rest == get_team_stats(Tail(teams))
             team == Head(teams)
         IN  IF team.ok
             THEN LET r == TeamRecords(team)
                  IN  [hitting |-> <<r.hitting>> \o rest.hitting,
                       pitching |-> <<r.pitching>> \o rest.pitching]
             ELSE rest

-----------------------------------------------------------------------------
(* get_matchups and get_top_performers, lines 358-393 *)

\* range(6) of line 366
MatchupSlots == 6

\* get_matchups: the scoreboard's matchups, at most six, scores through
\* safe_float; a scoreboard that cannot be fetched or read yields []
get_matchups(scoreboard) ==
    IF ~scoreboard.ok THEN << >>
    ELSE LET raw == scoreboard.matchups
             n == IF Len(raw) < MatchupSlots THEN Len(raw) ELSE MatchupSlots
         IN  [i \in 1..n |->
                 [team1_key |-> raw[i].team1_key,
                  team1_score |-> safe_float(raw[i].team1_total),
                  team2_key |-> raw[i].team2_key,
                  team2_score |-> safe_float(raw[i].team2_total)]]

get_top_performers == [topHitters |-> << >>, topPitchers |-> << >>]

-----------------------------------------------------------------------------
(* get_category_leaders, lines 395-425 *)

\* sorted(records, key=lambda x: x.get(cat, default), reverse=reverse):
\* Python's sort is stable, with reverse=True too: records with equal keys
\* keep their input order
RECURSIVE InsertSorted(_, _, _, _, _)
InsertSorted(done, x, cat, default, reverse) ==
    IF done = << >> THEN <<x>>
    ELSE LET kx == Get(x.stats, cat, default)
             kh == Get(Head(done).stats, cat, default)
         IN  IF (IF reverse THEN kh < kx ELSE kh > kx)
             THEN <<x>> \o done
             ELSE <<Head(done)>> \o InsertSorted(Tail(done), x, cat, default, reverse)

RECURSIVE SortInto(_, _, _, _, _)
SortInto(done, records, cat, default, reverse) ==
    IF records = << >> THEN done
    ELSE SortInto(InsertSorted(done, Head(records), cat, default, reverse),
                  Tail(records), cat, default, reverse)

\* sorted whose reverse=True is an ascending sort read backwards: records
\* with equal keys come out in reverse input order
sorted_backwards(records, cat, default, reverse) ==
    LET up == SortInto(<< >>, records, cat, default, FALSE)
    IN  IF reverse THEN [i \in 1..Len(up) |-> up[Len(up) + 1 - i]] ELSE up

sorted(records, cat, default, reverse) ==
    SortInto(<< >>, records, cat, default, reverse)

hitting_cats == {"HR", "RBI", "SB", "1B", "2B", "3B"}

pitching_cats == {"K", "W", "SV", "QS"}

\* HasLeader without the test for a positive leading value
HasLeader_any(sorted_teams, cat) == sorted_teams # << >>

\* lines 402 and 411: the condition under which a category gets a leader
HasLeader(sorted_teams, cat) ==
    sorted_teams # << >> /\ Get(sorted_teams[1].stats, cat, 0) > 0

\* lines 403-406 and 412-415
LeaderEntry(sorted_teams, cat) ==
    [value |-> Get(sorted_teams[1].stats, cat, 0),
     team_key |-> sorted_teams[1].team_key]

\* line 417
pitching_with_ip(pitching_stats) ==
    SelectSeq(pitching_stats, LAMBDA p : Get(p.stats, "IP", 0) > 0)

get_category_leaders(hitting_stats, pitching_stats) ==
    LET hs(cat) == sorted(hitting_stats, cat, 0, TRUE)
        ps(cat) == sorted(pitching_stats, cat, 0, TRUE)
        with_ip == pitching_with_ip(pitching_stats)
        sorted_era == sorted(with_ip, "ERA", 999000, FALSE)
        hcats == {cat \in hitting_cats : HasLeader(hs(cat), cat)}
        pcats == {cat \in pitching_cats : HasLeader(ps(cat), cat)}
        ecats == IF with_ip # << >> THEN {"ERA"} ELSE {}
    IN  [cat \in hcats \cup pcats \cup ecats |->
            IF cat \in hcats THEN LeaderEntry(hs(cat), cat)
            ELSE IF cat \in pcats THEN LeaderEntry(ps(cat), cat)
            ELSE LeaderEntry(sorted_era, "ERA")]

-----------------------------------------------------------------------------
(* calculate_cumulative_stats, lines 427-481 *)

\* AddStats that stores the weekly value instead of adding it
AddStats_assign(current, weekly, skipped) ==
    LET keys == DOMAIN weekly \ skipped
    IN  [k \in DOMAIN current \cup keys |->
            IF k \in keys THEN weekly[k] ELSE current[k]]

\* lines 443-447 and 459-463: every key of the weekly record but the skipped
\* ones is added to the team's running dictionary
AddStats(current, weekly, skipped) ==
    LET keys == DOMAIN weekly \ skipped
    IN  [k \in DOMAIN current \cup keys |->
            IF k \in keys THEN Get(current, k, 0) + weekly[k] ELSE current[k]]

\* Accumulate that takes the identity fields of every weekly record it adds
Accumulate_latest(cumulative, rec, skipped) ==
    IF \E i \in 1..Len(cumulative) : cumulative[i].team_key = rec.team_key
    THEN [i \in 1..Len(cumulative) |->
            IF cumulative[i].team_key = rec.team_key
            THEN [cumulative[i] EXCEPT !.stats = AddStats(@, rec.stats, skipped),
                                       !.team_name = rec.team_name,
                                       !.manager = rec.manager]
            ELSE cumulative[i]]
    ELSE Append(cumulative,
                [stats |-> AddStats(("Points" :> 0), rec.stats, skipped),
                 team_key |-> rec.team_key, team_name |-> rec.team_name,
                 manager |-> rec.manager])

\* lines 434-447 and 450-463 for one weekly record; the running dictionary
\* keyed by team_key is the sequence of its values in insertion order
Accumulate(cumulative, rec, skipped) ==
    IF \E i \in 1..Len(cumulative) : cumulative[i].team_key = rec.team_key
    THEN [i \in 1..Len(cumulative) |->
            IF cumulative[i].team_key = rec.team_key
            THEN [cumulative[i] EXCEPT !.stats = AddStats(@, rec.stats, skipped)]
            ELSE cumulative[i]]
    ELSE Append(cumulative,
                [stats |-> AddStats(("Points" :> 0), rec.stats, skipped),
                 team_key |-> rec.team_key, team_name |-> rec.team_name,
                 manager |-> rec.manager])

RECURSIVE AccumulateAll(_, _, _)
AccumulateAll(cumulative, records, skipped) ==
    IF records = << >> THEN cumulative
    ELSE AccumulateAll(Accumulate(cumulative, Head(records), skipped),
                       Tail(records), skipped)

\* the loop of line 432 over all_weeks.items(), in dictionary order
RECURSIVE SumWeeks(_, _)
SumWeeks(acc, all_weeks) ==
    IF all_weeks = << >> THEN acc
    ELSE LET week_data == Head(all_weeks).entry
         IN  SumWeeks([hitting |-> AccumulateAll(acc.hitting, week_data.hitting, {}),
                       pitching |-> AccumulateAll(acc.pitching, week_data.pitching,
                                                  {"ERA", "K/9"})],
                      Tail(all_weeks))

\* FinishPitching whose K/9 is computed from ER
FinishPitching_er(stats) ==
    LET ip == Get(stats, "IP", 0)
        rated == IF ip > 0
                 THEN Put(Put(stats, "ERA", RoundDiv(Get(stats, "ER", 0) * 9, ip, 2)),
                          "K/9", RoundDiv(Get(stats, "ER", 0) * 9, ip, 2))
                 ELSE Put(Put(stats, "ERA", 0), "K/9", 0)
    IN  Put(rated, "Points", Round(rated["Points"], 1))

\* lines 466-473 for one team's summed pitching dictionary
FinishPitching(stats) ==
    LET ip == Get(stats, "IP", 0)
        rated == IF ip > 0
                 THEN Put(Put(stats, "ERA", RoundDiv(Get(stats, "ER", 0) * 9, ip, 2)),
                          "K/9", RoundDiv(Get(stats, "K", 0) * 9, ip, 2))
                 ELSE Put(Put(stats, "ERA", 0), "K/9", 0)
    IN  Put(rated, "Points", Round(rated["Points"], 1))

\* line 476
FinishHitting(stats) == Put(stats, "Points", Round(stats["Points"], 1))

\* lines 465-481: the derived fields of every team, then the two lists
Finish(summed) ==
    [hitting |-> [i \in 1..Len(summed.hitting) |->
                    [summed.hitting[i] EXCEPT !.stats = FinishHitting(@)]],
     pitching |-> [i \in 1..Len(summed.pitching) |->
                    [summed.pitching[i] EXCEPT !.stats = FinishPitching(@)]]]

calculate_cumulative_stats(all_weeks) ==
    Finish(SumWeeks([hitting |-> << >>, pitching |-> << >>], all_weeks))

-----------------------------------------------------------------------------
(* collect_weekly_stats, lines 487-555 *)

\* get_completed_week, lines 283-289; weekday 0 is Monday
get_completed_week(current_week, weekday) ==
    IF weekday = 0
    THEN (IF current_week - 1 > 1 THEN current_week - 1 ELSE 1)
    ELSE current_week

\* DefaultData that already holds an empty entry for a week 0
DefaultData_stale(completed_week) ==
    ("currentWeek" :> completed_week)
    @@ ("weeks" :> <<[entry |-> [hitting |-> << >>, pitching |-> << >>,
                                 matchups |-> << >>, topHitters |-> << >>,
                                 topPitchers |-> << >>,
                                 categoryLeaders |-> << >>],
                      key |-> "0"]>>)
    @@ ("cumulative" :> << >>)

\* lines 510-514: the document a run starts from when none is loaded
DefaultData(completed_week) ==
    ("currentWeek" :> completed_week) @@ ("weeks" :> << >>) @@ ("cumulative" :> << >>)

\* StoreWeek with the new records appended to the stored week's lists instead
\* of replacing the entry
StoreWeek_append(weeks, key, entry) ==
    IF \E i \in 1..Len(weeks) : weeks[i].key = key
    THEN [i \in 1..Len(weeks) |->
            IF weeks[i].key = key
            THEN [entry |-> [entry EXCEPT
                               !.hitting = weeks[i].entry.hitting \o @,
                               !.pitching = weeks[i].entry.pitching \o @],
                  key |-> key]
            ELSE weeks[i]]
    ELSE Append(weeks, [entry |-> entry, key |-> key])

\* StoreWeek that keeps only the processed week
StoreWeek_reset(weeks, key, entry) == <<[entry |-> entry, key |-> key]>>

\* line 530: weeks[key] = entry; a new key goes to the end of the dictionary,
\* an existing key keeps its place
StoreWeek(weeks, key, entry) ==
    IF \E i \in 1..Len(weeks) : weeks[i].key = key
    THEN [i \in 1..Len(weeks) |->
            IF weeks[i].key = key THEN [entry |-> entry, key |-> key] ELSE weeks[i]]
    ELSE Append(weeks, [entry |-> entry, key |-> key])

\* lines 525-537: the WeekEntry built from the provider's answers
WeekEntry(teams, scoreboard) ==
    LET week_stats == get_team_stats(teams)
        matchups == get_matchups(scoreboard)
        performers == get_top_performers
        leaders == get_category_leaders(week_stats.hitting, week_stats.pitching)
    IN  [hitting |-> week_stats.hitting,
         pitching |-> week_stats.pitching,
         matchups |-> matchups,
         topHitters |-> performers.topHitters,
         topPitchers |-> performers.topPitchers,
         categoryLeaders |-> leaders]

\* Recompute as an increment: the processed week added onto the cumulative
\* view the document already held
Recompute_increment(existing_data) ==
    LET key == ToString(existing_data.currentWeek)
        this_week == SelectSeq(existing_data.weeks, LAMBDA w : w.key = key)
        held == IF DOMAIN existing_data.cumulative = {}
                THEN [hitting |-> << >>, pitching |-> << >>]
                ELSE existing_data.cumulative
    IN  Put(existing_data, "cumulative", Finish(SumWeeks(held, this_week)))

\* line 542
Recompute(existing_data) ==
    Put(existing_data, "cumulative", calculate_cumulative_stats(existing_data.weeks))

\* Updated that stores the week in an empty dictionary, whatever was loaded
Updated_fresh(existing_data, completed_week, teams, scoreboard) ==
    LET d1 == Put(existing_data, "weeks",
                  StoreWeek(<< >>, ToString(completed_week),
                            WeekEntry(teams, scoreboard)))
        d2 == Put(d1, "currentWeek", completed_week)
        d3 == Recompute(d2)
    IN  Put(d3, "season", SEASON)

\* lines 524-548: the document written by a run that starts from
\* existing_data (lastUpdated, a wall-clock timestamp, is left out)
Updated(existing_data, completed_week, teams, scoreboard) ==
    LET d1 == Put(existing_data, "weeks",
                  StoreWeek(existing_data.weeks, ToString(completed_week),
                            WeekEntry(teams, scoreboard)))
        d2 == Put(d1, "currentWeek", completed_week)
        d3 == Recompute(d2)
    IN  Put(d3, "season", SEASON)

\* lines 516-522: the loaded document, or the default when there is no file
\* or it cannot be read
Loaded(f, loadOk, completed_week) ==
    IF f.exists /\ loadOk THEN f.data ELSE DefaultData(completed_week)

-----------------------------------------------------------------------------
(* The provider's answers *)

TeamInfo ==
    ("A" :> [name |-> "Aces", nickname |-> "ann"]) @@
    ("B" :> [name |-> "Bats", nickname |-> "bob"])

Stat(id, v) == [value |-> v, stat_id |-> id]

\* one team of lg.teams() with the outcome of lg.team_stats for it
Team(key, ok, stats) ==
    [stats |-> stats, team_key |-> key, name |-> TeamInfo[key].name,
     nickname |-> TeamInfo[key].nickname, ok |-> ok]

\* stat lists of the season runs.  Team A: a line with a fractional count and
\* innings pitched, or a line with a blank IP; team B: a line without
\* pitching stats
SeasonFeeds(key) ==
    IF key = "A"
    THEN { <<Stat(13, "0.7"), Stat(50, "0.7"), Stat(27, "1"), Stat(42, "2")>>,
           <<Stat(13, "1"), Stat(50, "-"), Stat(27, "1")>> }
    ELSE { <<Stat(13, "0.7")>> }

\* stat ids of the single-week runs: RBI, HR/QS, IP, ER, K (pitching),
\* K (batting) and an id neither map knows
StatIds == {13, 63, 50, 27, 42, 14, 99}

RawValues == {"-", "0.7", "1", "2"}

AllFeeds ==
    UNION {[1..n -> [value : RawValues, stat_id : StatIds]] : n \in 0..MaxFeedLen}

TeamAnswers(key, feeds) ==
    {Team(key, TRUE, f) : f \in feeds} \cup {Team(key, FALSE, << >>)}

Scoreboard ==
    [ok |-> TRUE,
     matchups |-> <<[team1_key |-> "A", team1_total |-> "2",
                     team2_key |-> "B", team2_total |-> "0.7"]>>]

Response(cw, weekday, teams) ==
    [teams |-> teams, scoreboard |-> Scoreboard,
     current_week |-> cw, weekday |-> weekday]

\* team B of the single-week runs: no stats, a hitting line, or a full line
WeekFeedsB ==
    { << >>, <<Stat(13, "0.7")>>,
      <<Stat(13, "0.7"), Stat(50, "0.7"), Stat(27, "1"), Stat(42, "2")>> }

-----------------------------------------------------------------------------
(* State machine *)

NoFile == [exists |-> FALSE, data |-> << >>]

NoResponse ==
    [teams |-> << >>, scoreboard |-> [ok |-> FALSE, matchups |-> << >>],
     current_week |-> 0, weekday |-> 0]

\* the command line and the credentials of a scheduled run: no arguments,
\* the four YAHOO_* variables set by the workflow
Scheduled ==
    [argv |-> << >>, env |-> TRUE, oauth_file |-> FALSE, league |-> TRUE]

\* data/projections before any fetch: no document under any name
NoDocs == << >>

NoFetch ==
    [argv |-> << >>,
     bat |-> [ok |-> FALSE, data |-> << >>], pit |-> [ok |-> FALSE, data |-> << >>],
     output_name |-> "", ros |-> FALSE, requests |-> 0, returned |-> "not called"]

\* the runs of the collector that may overlap: the scheduled workflow and
\* a run started by hand
Procs == {"workflow", "manual"}

\* a run that is not under way: held is the document the run holds in
\* memory, pc where the run stands, week the week it processes, wrote the
\* key of the week it stored last
NoRun == [held |-> << >>, pc |-> "idle", week |-> 0, wrote |-> ""]

Init ==
    /\ file = NoFile
    /\ resp = NoResponse
    /\ log = "none"
    /\ inv = Scheduled
    /\ docs = NoDocs
    /\ fetched = NoFetch
    /\ runs = [p \in Procs |-> NoRun]

\* one run of collect_weekly_stats against the provider's answers r
Run(r, loadOk) ==
    LET completed_week == get_completed_week(r.current_week, r.weekday)
        existing_data == Loaded(file, loadOk, completed_week)
    IN  /\ file' = [exists |-> TRUE,
                    data |-> Updated(existing_data, completed_week,
                                     r.teams, r.scoreboard)]
        /\ resp' = r
        /\ log' = IF ~file.exists THEN "cold start"
                  ELSE IF loadOk THEN "loaded" ELSE "could not load"

\* the scheduled runs: Monday mornings (line 5) of the weeks 2..MaxWeek+1,
\* teams in a fixed provider order; an existing file may fail to load
Collect ==
    \E cw \in 2..(MaxWeek + 1), loadOk \in BOOLEAN :
        \E a \in TeamAnswers("A", SeasonFeeds("A")),
           b \in TeamAnswers("B", SeasonFeeds("B")) :
            /\ file.exists \/ loadOk
            /\ Run(Response(cw, 0, <<a, b>>), loadOk)
            /\ UNCHANGED <<inv, docs, fetched, runs>>

\* one week in detail, from a cold start: every stat list up to MaxFeedLen
\* for team A, beside team B, in either provider order
CollectOneWeek ==
    /\ ~file.exists
    /\ \E a \in TeamAnswers("A", AllFeeds), b \in TeamAnswers("B", WeekFeedsB) :
        \E teams \in {<<a, b>>, <<b, a>>} :
            /\ Run(Response(2, 0, teams), TRUE)
            /\ UNCHANGED <<inv, docs, fetched, runs>>

Next == Collect

Spec == Init /\ [][Next]_vars

NextWeek == CollectOneWeek

SpecWeek == Init /\ [][NextWeek]_vars

\* the name and the manager nickname lg.teams() reports for team A: a team
\* can be renamed and can change hands between two runs
Identities ==
    { [name |-> "Aces", nickname |-> "ann"],
      [name |-> "Arrows", nickname |-> "amy"] }

\* a team's answer under the name and nickname of identity
Renamed(t, identity) ==
    [t EXCEPT !.name = identity.name, !.nickname = identity.nickname]

\* runs over a season in which team A is renamed: any week in any order,
\* each team fetched or failing, the file always loadable
CollectRenamed ==
    \E cw \in 2..(MaxWeek + 1), identity \in Identities :
        \E a \in TeamAnswers("A", {<<Stat(13, "1")>>}),
           b \in TeamAnswers("B", SeasonFeeds("B")) :
            /\ Run(Response(cw, 0, <<Renamed(a, identity), b>>), TRUE)
            /\ UNCHANGED <<inv, docs, fetched, runs>>

\* lines 505-522 of a run that may overlap another: the week is read from
\* the provider and the season file is loaded, or the empty default is
\* taken when there is no file.  While another run is between its load and
\* the end of its write, the file may be read half written, and json.load
\* then raises
Load(p) ==
    /\ runs[p].pc = "idle"
    /\ \E cw \in 2..(MaxWeek + 1), loadOk \in BOOLEAN :
          LET completed_week == get_completed_week(cw, 0)
          IN  /\ loadOk \/ (file.exists /\ \E q \in Procs \ {p} : runs[q].pc = "loaded")
              /\ runs' = [runs EXCEPT ![p] =
                            [held |-> Loaded(file, loadOk, completed_week),
                             pc |-> "loaded", week |-> completed_week,
                             wrote |-> @.wrote]]
              /\ log' = IF ~file.exists THEN "cold start"
                        ELSE IF loadOk THEN "loaded" ELSE "could not load"
    /\ UNCHANGED <<file, resp, inv, docs, fetched>>

\* lines 525-548 of the same run: the week is collected, stored in the
\* document the run holds, and the document is written over the file
Write(p) ==
    /\ runs[p].pc = "loaded"
    /\ LET teams == <<Team("A", TRUE, <<Stat(13, "1")>>),
                      Team("B", TRUE, <<Stat(13, "0.7")>>)>>
       IN  /\ file' = [exists |-> TRUE,
                       data |-> Updated(runs[p].held, runs[p].week,
                                        teams, Scoreboard)]
           /\ resp' = Response(runs[p].week + 1, 0, teams)
    /\ runs' = [runs EXCEPT ![p] =
                  [held |-> << >>, pc |-> "idle", week |-> 0,
                   wrote |-> ToString(runs[p].week)]]
    /\ UNCHANGED <<log, inv, docs, fetched>>

NextRace == \E p \in Procs : Load(p) \/ Write(p)

SpecRace == Init /\ [][NextRace]_vars

NextNames == CollectRenamed

SpecNames == Init /\ [][NextNames]_vars

-----------------------------------------------------------------------------
(* The command line of the collector, lines 198-272 and 561-591 *)

\* setup_oauth that falls back to an empty credentials object
setup_oauth_lenient(env, oauth_file) ==
    IF env THEN "environment" ELSE "local file"

\* setup_oauth, lines 213-272: the credentials come from the environment
\* when the four variables are set, else from a local oauth2.json, else the
\* function raises FileNotFoundError
setup_oauth(env, oauth_file) ==
    IF env THEN "environment"
    ELSE IF oauth_file THEN "local file"
    ELSE "raise"

\* the command lines of lines 564-591 (sys.argv[1:]); N is a week number
Argvs ==
    {<< >>, <<"--help">>, <<"--all">>} \cup {<<"--week", n>> : n \in 1..MaxWeek}

\* the credentials a run can find, and whether the account has a league for
\* SEASON (line 496)
Environments ==
    {[env |-> TRUE, oauth_file |-> FALSE, league |-> TRUE],
     [env |-> FALSE, oauth_file |-> TRUE, league |-> TRUE],
     [env |-> FALSE, oauth_file |-> FALSE, league |-> TRUE],
     [env |-> TRUE, oauth_file |-> TRUE, league |-> FALSE]}

\* lines 561-591 and 487-555: one invocation of the script.  --help prints
\* the usage; --week N, --all and no argument all call
\* collect_weekly_stats(), which takes no argument.  A run that raises in
\* setup_oauth (line 494) or finds no league (line 498) ends before the
\* season file is opened
Main(argv, e, r) ==
    /\ inv' = [argv |-> argv, env |-> e.env, oauth_file |-> e.oauth_file,
               league |-> e.league]
    /\ IF argv = <<"--help">>
       THEN /\ log' = "usage"
            /\ UNCHANGED <<file, resp>>
       ELSE IF setup_oauth(e.env, e.oauth_file) = "raise"
       THEN /\ log' = "no credentials"
            /\ UNCHANGED <<file, resp>>
       ELSE IF ~e.league
       THEN /\ log' = "no league"
            /\ UNCHANGED <<file, resp>>
       ELSE Run(r, TRUE)
    /\ UNCHANGED <<docs, fetched, runs>>

\* the script run by hand or by the workflow: any command line, any day of
\* the week, the provider in any week 1..MaxWeek, the same two stat lists
\* every time
Invoke ==
    \E args \in Argvs, e \in Environments, cw \in 1..MaxWeek, day \in 0..6 :
        Main(args, e, Response(cw, day, <<Team("A", TRUE, <<Stat(13, "0.7")>>),
                                          Team("B", TRUE, << >>)>>))

NextCli == Invoke

SpecCli == Init /\ [][NextCli]_vars

-----------------------------------------------------------------------------
(* The projection fetchers: fetch_projections.py (preseason) and            *)
(* fetch_ros_projections.py (rest of season).  Every number of a player is  *)
(* a decimal in thousandths, the whole-number stats included.               *)

\* fetch_projections.py lines 36-47: output name -> API type
PROJECTION_SYSTEMS ==
    ("steamer" :> "steamer") @@ ("zips" :> "zips") @@ ("zipsdc" :> "zipsdc")
    @@ ("zips2027" :> "zipsp1") @@ ("zips2028" :> "zipsp2")
    @@ ("depthcharts" :> "fangraphsdc") @@ ("thebat" :> "thebat")
    @@ ("thebatx" :> "thebatx") @@ ("oopsy" :> "oopsy") @@ ("atc" :> "atc")

\* fetch_projections.py line 50
FULL_PLAYER_LIST_SYSTEMS == {"zips", "zipsdc", "zips2027", "zips2028"}

\* fetch_ros_projections.py lines 36-44
ROS_PROJECTION_SYSTEMS ==
    ("ros_oopsydc" :> "roopsydc") @@ ("ros_zipsdc" :> "rzipsdc")
    @@ ("ros_steamer" :> "steamerr") @@ ("ros_fangraphsdc" :> "rfangraphsdc")
    @@ ("ros_atcdc" :> "ratcdc") @@ ("ros_thebat" :> "rthebat")
    @@ ("ros_thebatx" :> "rthebatx")

\* fetch_ros_projections.py line 47
BATTERS_ONLY_SYSTEMS == {"rthebatx"}

\* the scoring tables of both fetchers (fetch_projections.py lines 53-84,
\* the same values in fetch_ros_projections.py lines 50-82)
PROJECTION_BATTING_SCORING ==
    ("1B" :> 1100) @@ ("2B" :> 2200) @@ ("3B" :> 3300) @@ ("HR" :> 4400)
    @@ ("RBI" :> 1000) @@ ("SB" :> 2000) @@ ("CS" :> -1000) @@ ("BB" :> 1000)
    @@ ("IBB" :> 1000) @@ ("HBP" :> 1000) @@ ("SO" :> -500) @@ ("CYC" :> 5000)
    @@ ("SLAM" :> 2000)

PROJECTION_PITCHING_SCORING ==
    ("IP" :> 2500) @@ ("W" :> 2500) @@ ("L" :> -3000) @@ ("CG" :> 5000)
    @@ ("ShO" :> 5000) @@ ("SV" :> 5000) @@ ("HA" :> -750) @@ ("ER" :> -1750)
    @@ ("BBA" :> -750) @@ ("K" :> 1500) @@ ("HLD" :> 2000) @@ ("PICK" :> 3000)
    @@ ("NH" :> 10000) @@ ("QS" :> 3000)

\* playing-time thresholds: fetch_projections.py lines 228 and 297,
\* fetch_ros_projections.py lines 84 and 85
MIN_PA == 50

MIN_IP == 10

ROS_MIN_PA == 20

ROS_MIN_IP == 5

\* fetch_projections.py lines 338-339: batters[:400], pitchers[:400]
TOP_N == 400

\* the sum of stats.get(stat, 0) * table[weight] over <<stat, weight>> pairs
RECURSIVE PointsOver(_, _, _)
PointsOver(stats, table, pairs) ==
    IF pairs = << >> THEN 0
    ELSE Mul(Get(stats, pairs[1][1], 0), table[pairs[1][2]])
         + PointsOver(stats, table, Tail(pairs))

\* calculate_batting_points, lines 87-101
calculate_batting_points(stats) ==
    Round(PointsOver(stats, PROJECTION_BATTING_SCORING,
                     << <<"1B", "1B">>, <<"2B", "2B">>, <<"3B", "3B">>,
                        <<"HR", "HR">>, <<"RBI", "RBI">>, <<"SB", "SB">>,
                        <<"CS", "CS">>, <<"BB", "BB">>, <<"IBB", "IBB">>,
                        <<"HBP", "HBP">>, <<"SO", "SO">> >>), 1)

\* calculate_pitching_points, lines 104-118: hits and walks allowed are read
\* from the keys H and BB
calculate_pitching_points(stats) ==
    Round(PointsOver(stats, PROJECTION_PITCHING_SCORING,
                     << <<"IP", "IP">>, <<"W", "W">>, <<"L", "L">>,
                        <<"SV", "SV">>, <<"HLD", "HLD">>, <<"ER", "ER">>,
                        <<"H", "HA">>, <<"BB", "BBA">>, <<"K", "K">>,
                        <<"QS", "QS">>, <<"CG", "CG">> >>), 1)

\* fetch_fangraphs_projections, lines 129-157: the decoded list, or [] when
\* the request raises
fetch_fangraphs_projections(answer) ==
    IF answer.ok THEN answer.data ELSE << >>

\* A source player is [name, team, fields, junk]: fields holds the numeric
\* values the API sent, junk the keys whose value is text no number can be
\* parsed from.

\* player.get(key, 0) or 0
Field(player, key) == Get(player.fields, key, 0)

\* int(x): the decimal cut towards zero
int(x) == IF x >= 0 THEN (x \div 1000) * 1000 ELSE -(((-x) \div 1000) * 1000)

\* the int(...)/float(...) conversions of a player raise when one of the
\* keys they read holds junk
Raises(player, keys) == player.junk \cap keys # {}

BatterKeys ==
    {"H", "2B", "3B", "HR", "G", "RBI", "R", "SB", "BB", "SO", "AVG", "OPS", "PA"}

PitcherKeys ==
    {"GS", "G", "W", "L", "SV", "HLD", "IP", "SO", "ER", "H", "BB", "ERA", "WHIP"}

\* lines 166-225: the record of one batter (position and headshot_url,
\* which no number depends on, are left out)
Batter(player) ==
    LET h == int(Field(player, "H"))
        doubles == int(Field(player, "2B"))
        triples == int(Field(player, "3B"))
        hr == int(Field(player, "HR"))
        stats == ("G" :> int(Field(player, "G"))) @@ ("HR" :> hr)
                 @@ ("RBI" :> int(Field(player, "RBI")))
                 @@ ("R" :> int(Field(player, "R")))
                 @@ ("SB" :> int(Field(player, "SB"))) @@ ("H" :> h)
                 @@ ("1B" :> h - doubles - triples - hr)
                 @@ ("2B" :> doubles) @@ ("3B" :> triples)
                 @@ ("BB" :> int(Field(player, "BB")))
                 @@ ("SO" :> int(Field(player, "SO")))
                 @@ ("AVG" :> Field(player, "AVG"))
                 @@ ("OPS" :> Field(player, "OPS"))
                 @@ ("PA" :> int(Field(player, "PA")))
    IN  [stats |-> stats, team |-> player.team, name |-> player.name,
         type |-> "batter", projected_points |-> calculate_batting_points(stats)]

\* Position from the plain ratio of starts to games
Position_ratio(gs, g) ==
    IF 2 * gs >= g THEN "SP" ELSE "RP"

\* SP vs RP, fetch_projections.py lines 255-258
Position(gs, g) ==
    IF gs > 0 /\ 2 * gs >= (IF g > 1000 THEN g ELSE 1000) THEN "SP" ELSE "RP"

\* SP vs RP, fetch_ros_projections.py lines 235-238
RosPosition(gs, g) ==
    IF gs > 0 /\ 2 * gs >= (IF g > 1000 THEN g ELSE 1000) THEN "SP" ELSE "RP"


\* lines 246-294: the record of one pitcher; ros selects the rest-of-season
\* copy of the function
Pitcher(player, ros) ==
    LET gs == int(Field(player, "GS"))
        g == int(Field(player, "G"))
        k == int(Get(player.fields, "SO", Field(player, "K")))
        stats == ("W" :> int(Field(player, "W"))) @@ ("L" :> int(Field(player, "L")))
                 @@ ("SV" :> int(Field(player, "SV")))
                 @@ ("HLD" :> int(Field(player, "HLD")))
                 @@ ("IP" :> Field(player, "IP"))
                 @@ ("K" :> k) @@ ("SO" :> k)
                 @@ ("ER" :> int(Field(player, "ER")))
                 @@ ("H" :> int(Field(player, "H")))
                 @@ ("BB" :> int(Field(player, "BB")))
                 @@ ("ERA" :> Field(player, "ERA"))
                 @@ ("WHIP" :> Field(player, "WHIP"))
                 @@ ("G" :> g) @@ ("GS" :> gs)
    IN  [stats |-> stats, team |-> player.team, name |-> player.name,
         type |-> "pitcher",
         projected_points |-> calculate_pitching_points(stats),
         position |-> IF ros THEN RosPosition(gs, g) ELSE Position(gs, g)]

\* the largest element of a non-empty set of numbers
Largest(S) == CHOOSE x \in S : \A y \in S : y <= x

\* the records whose projected_points is in keys, highest value first,
\* records of equal value in the order of players
RECURSIVE Descending(_, _)
Descending(players, keys) ==
    IF keys = {} THEN << >>
    ELSE LET top == Largest(keys)
         IN  SelectSeq(players, LAMBDA x : x.projected_points = top)
             \o Descending(players, keys \ {top})

\* sort_by_points that leaves the list in source order
sort_by_points_unsorted(players) == players

\* players.sort(key=lambda x: x['projected_points'], reverse=True): a stable
\* sort, so records of equal points keep their source order
sort_by_points(players) ==
    Descending(players, {players[i].projected_points : i \in 1..Len(players)})

\* KeptBatters with an exclusive threshold
KeptBatters_exclusive(raw_data, min_pa) ==
    LET readable == SelectSeq(raw_data, LAMBDA x : ~Raises(x, BatterKeys))
        processed == [i \in 1..Len(readable) |-> Batter(readable[i])]
    IN  SelectSeq(processed, LAMBDA x : x.stats["PA"] > min_pa * 1000)

\* the loop of process_batter_projections: a player whose conversion raises
\* is skipped by the except clause, the others are kept when PA >= min_pa
KeptBatters(raw_data, min_pa) ==
    LET readable == SelectSeq(raw_data, LAMBDA x : ~Raises(x, BatterKeys))
        processed == [i \in 1..Len(readable) |-> Batter(readable[i])]
    IN  SelectSeq(processed, LAMBDA x : x.stats["PA"] >= min_pa * 1000)

\* the loop of process_pitcher_projections, likewise with IP >= min_ip
KeptPitchers(raw_data, min_ip, ros) ==
    LET readable == SelectSeq(raw_data, LAMBDA x : ~Raises(x, PitcherKeys))
        processed == [i \in 1..Len(readable) |-> Pitcher(readable[i], ros)]
    IN  SelectSeq(processed, LAMBDA x : x.stats["IP"] >= min_ip * 1000)

\* fetch_projections.py lines 160-237
process_batter_projections(raw_data) ==
    sort_by_points(KeptBatters(raw_data, MIN_PA))

\* fetch_projections.py lines 240-306
process_pitcher_projections(raw_data) ==
    sort_by_points(KeptPitchers(raw_data, MIN_IP, FALSE))

\* fetch_ros_projections.py lines 151-219
ros_process_batter_projections(raw_data) ==
    sort_by_points(KeptBatters(raw_data, ROS_MIN_PA))

\* fetch_ros_projections.py lines 222-282
ros_process_pitcher_projections(raw_data) ==
    sort_by_points(KeptPitchers(raw_data, ROS_MIN_IP, TRUE))

\* Truncate that keeps one record more
Truncate_late(players) ==
    SubSeq(players, 1, IF Len(players) < TOP_N + 1 THEN Len(players) ELSE TOP_N + 1)

\* players[:400]
Truncate(players) ==
    SubSeq(players, 1, IF Len(players) < TOP_N THEN Len(players) ELSE TOP_N)

\* OutputFile that gives every system of a fetcher the same file
OutputFile_shared(output_name, ros) ==
    <<IF ros THEN "data/projections/ros" ELSE "data/projections", "projections">>

\* the file a fetcher writes for output_name: OUTPUT_DIR and the name
OutputFile(output_name, ros) ==
    <<IF ros THEN "data/projections/ros" ELSE "data/projections", output_name>>

\* what a fetcher returns when both raw lists are empty: False, no output
NotSaved == [saved |-> FALSE, output |-> << >>]

\* fetch_and_save_projections without the early return of lines 328-330
fetch_and_save_projections_always(output_name, bat, pit) ==
    LET include_all_players == output_name \in FULL_PLAYER_LIST_SYSTEMS
        batters_raw == fetch_fangraphs_projections(bat)
        pitchers_raw == fetch_fangraphs_projections(pit)
        batters == process_batter_projections(batters_raw)
        pitchers == IF pitchers_raw # << >>
                    THEN process_pitcher_projections(pitchers_raw) ELSE << >>
        projection_year == IF output_name = "zips2027" THEN 2027
                           ELSE IF output_name = "zips2028" THEN 2028 ELSE 2026
    IN  [saved |-> TRUE,
         output |->
           [batters |-> IF include_all_players THEN batters
                        ELSE Truncate(batters),
            pitchers |-> IF include_all_players THEN pitchers
                         ELSE Truncate(pitchers),
            year |-> projection_year, projection_type |-> output_name,
            is_ros |-> FALSE]]

\* fetch_and_save_projections, lines 309-382: the return value and the
\* document handed to json.dump; generated_at and the scoring tables are
\* left out of the document
fetch_and_save_projections(output_name, bat, pit) ==
    LET include_all_players == output_name \in FULL_PLAYER_LIST_SYSTEMS
        batters_raw == fetch_fangraphs_projections(bat)
        pitchers_raw == fetch_fangraphs_projections(pit)
        batters == process_batter_projections(batters_raw)
        pitchers == IF pitchers_raw # << >>
                    THEN process_pitcher_projections(pitchers_raw) ELSE << >>
        projection_year == IF output_name = "zips2027" THEN 2027
                           ELSE IF output_name = "zips2028" THEN 2028 ELSE 2026
    IN  IF batters_raw = << >> /\ pitchers_raw = << >> THEN NotSaved
        ELSE [saved |-> TRUE,
              output |->
                [batters |-> IF include_all_players THEN batters
                             ELSE Truncate(batters),
                 pitchers |-> IF include_all_players THEN pitchers
                              ELSE Truncate(pitchers),
                 year |-> projection_year, projection_type |-> output_name,
                 is_ros |-> FALSE]]

\* fetch_and_save_ros_projections, fetch_ros_projections.py lines 285-342:
\* a batters-only system does not fetch pitchers; nothing is truncated
fetch_and_save_ros_projections(output_name, bat, pit) ==
    LET is_batters_only == ROS_PROJECTION_SYSTEMS[output_name] \in BATTERS_ONLY_SYSTEMS
        batters_raw == fetch_fangraphs_projections(bat)
        pitchers_raw == IF is_batters_only THEN << >>
                        ELSE fetch_fangraphs_projections(pit)
        batters == ros_process_batter_projections(batters_raw)
        pitchers == IF pitchers_raw # << >>
                    THEN ros_process_pitcher_projections(pitchers_raw) ELSE << >>
    IN  IF batters_raw = << >> /\ pitchers_raw = << >> THEN NotSaved
        ELSE [saved |-> TRUE,
              output |->
                [batters |-> batters, pitchers |-> pitchers,
                 year |-> 2026, projection_type |-> output_name, is_ros |-> TRUE]]


-----------------------------------------------------------------------------
(* The answers of the projections API *)

\* a source player
Player(name, fields, junk) ==
    [team |-> "FA", name |-> name, fields |-> fields, junk |-> junk]

\* a short batter list in source order: PA at and just under both
\* thresholds, a fractional PA, two batters of equal points, and one whose
\* HR cannot be parsed
FewBatters ==
    << Player("b1", ("PA" :> 20000) @@ ("H" :> 1000), {}),
       Player("b2", ("PA" :> 19000) @@ ("H" :> 5000) @@ ("HR" :> 5000), {}),
       Player("b3", ("PA" :> 50000) @@ ("H" :> 2000) @@ ("HR" :> 1000), {}),
       Player("b4", ("PA" :> 600000) @@ ("H" :> 9000), {"HR"}),
       Player("b5", ("PA" :> 49900) @@ ("H" :> 3000) @@ ("HR" :> 3000), {}),
       Player("b6", ("PA" :> 50700) @@ ("H" :> 2000) @@ ("HR" :> 1000), {}) >>

\* a short pitcher list in source order: IP at and just under both
\* thresholds, starts at, under and over half the games, no games at all,
\* negative counts, and one pitcher whose IP cannot be parsed
FewPitchers ==
    << Player("p1", ("IP" :> 5000) @@ ("GS" :> 1000) @@ ("G" :> 3000)
                    @@ ("L" :> 1000), {}),
       Player("p2", ("IP" :> 4800) @@ ("GS" :> 3000) @@ ("G" :> 3000), {}),
       Player("p3", ("IP" :> 10000) @@ ("GS" :> 1000) @@ ("G" :> 2000)
                    @@ ("SO" :> 5000), {}),
       Player("p4", ("IP" :> 9800) @@ ("W" :> 1000), {}),
       Player("p5", ("IP" :> 99000) @@ ("GS" :> 9000) @@ ("G" :> 9000), {"IP"}),
       Player("p6", ("IP" :> 12000) @@ ("GS" :> -1000) @@ ("G" :> -3000), {}),
       Player("p7", ("IP" :> 10000) @@ ("GS" :> 1000) @@ ("K" :> 5000), {}) >>

\* a long source list: TOP_N + MaxOver + 10 players, every fiftieth under
\* both playing-time thresholds, points in no particular order
ManyBatters ==
    [i \in 1..(TOP_N + MaxOver + 10) |->
        Player(ToString(i),
               ("PA" :> IF i % 50 = 0 THEN 19000 ELSE 50000 + 1000 * (i % 7))
               @@ ("H" :> 1000 * ((i % 3) + (i % 2)))
               @@ ("HR" :> 1000 * (i % 3)),
               {})]

ManyPitchers ==
    [i \in 1..(TOP_N + MaxOver + 10) |->
        Player(ToString(i),
               ("IP" :> IF i % 50 = 0 THEN 4800 ELSE 10000 + 1000 * (i % 7))
               @@ ("GS" :> 1000 * (i % 4)) @@ ("G" :> 3000)
               @@ ("SO" :> 1000 * (i % 3)),
               {})]

\* the outcome of one request: the decoded list, or a RequestException
Answer(data) == [ok |-> TRUE, data |-> data]

Failure == [ok |-> FALSE, data |-> << >>]

\* the pairs <<batter answer, pitcher answer>> tried for a system
ProjectionAnswers(output_name) ==
    IF output_name = "steamer"
    THEN { <<Failure, Failure>>, <<Failure, Answer(FewPitchers)>>,
           <<Answer(FewBatters), Failure>>,
           <<Answer(FewBatters), Answer(FewPitchers)>>,
           <<Answer(ManyBatters), Answer(ManyPitchers)>> }
    ELSE IF output_name = "zips"
    THEN { <<Answer(FewBatters), Answer(FewPitchers)>>,
           <<Answer(ManyBatters), Answer(ManyPitchers)>> }
    ELSE IF output_name = "ros_steamer"
    THEN { <<Failure, Failure>>, <<Failure, Answer(FewPitchers)>>,
           <<Answer(FewBatters), Failure>>,
           <<Answer(FewBatters), Answer(FewPitchers)>>,
           <<Answer(ManyBatters), Answer(ManyPitchers)>> }
    ELSE { <<Failure, Answer(FewPitchers)>>,
           <<Answer(FewBatters), Answer(FewPitchers)>> }

-----------------------------------------------------------------------------
(* The projection fetchers as a state machine *)

\* the number of requests a fetcher sends for a system: batters and
\* pitchers, or batters alone for a batters-only system
Requests(output_name, ros) ==
    IF ros /\ ROS_PROJECTION_SYSTEMS[output_name] \in BATTERS_ONLY_SYSTEMS
    THEN 1 ELSE 2

\* one call of a fetcher for output_name (one turn of the loop of main, or
\* the whole run when the system is named on the command line): the
\* document, when one is produced, replaces the file of that name
Save(args, output_name, ros, bat, pit, result) ==
    /\ docs' = IF result.saved
               THEN Put(docs, OutputFile(output_name, ros), result.output)
               ELSE docs
    /\ fetched' = [argv |-> args, bat |-> bat, pit |-> pit,
                   output_name |-> output_name, ros |-> ros,
                   requests |-> Requests(output_name, ros),
                   returned |-> IF result.saved THEN "True" ELSE "False"]
    /\ UNCHANGED <<file, resp, log, inv, runs>>

\* a run of main that calls no fetcher and prints message
NoCall(args, ros, message) ==
    /\ docs' = docs
    /\ fetched' = [NoFetch EXCEPT !.argv = args, !.ros = ros]
    /\ log' = message
    /\ UNCHANGED <<file, resp, inv, runs>>

\* the turns of the loop of main (fetch_projections.py lines 416-417) for
\* two of the systems, one of them exempt from truncation
FetchPreseason ==
    \E output_name \in {"steamer", "zips"} :
        \E a \in ProjectionAnswers(output_name) :
            Save(<< >>, output_name, FALSE, a[1], a[2],
                 fetch_and_save_projections(output_name, a[1], a[2]))

\* the turns of the loop of main (fetch_ros_projections.py lines 376-377)
\* for two of the systems, one of them batters-only
FetchRos ==
    \E output_name \in {"ros_steamer", "ros_thebatx"} :
        \E a \in ProjectionAnswers(output_name) :
            Save(<< >>, output_name, TRUE, a[1], a[2],
                 fetch_and_save_ros_projections(output_name, a[1], a[2]))

\* str.lower on the words of the command lines tried
LowerCase ==
    ("ZiPS" :> "zips") @@ ("ROS_THEBATX" :> "ros_thebatx") @@ ("--HELP" :> "--help")

lower(word) == IF word \in DOMAIN LowerCase THEN LowerCase[word] ELSE word

\* the first argument of the command lines tried: systems of the fetcher in
\* either case, a system of the other fetcher, a help flag, an unknown word
Words(ros) ==
    IF ros THEN {"ros_steamer", "ROS_THEBATX", "steamer", "-h"}
    ELSE {"steamer", "ZiPS", "ros_steamer", "--HELP", "nosuch"}

\* main with a first argument (fetch_projections.py lines 392-412,
\* fetch_ros_projections.py lines 352-372); a is the pair of answers the
\* API gives if it is asked
main(args, ros, a) ==
    LET requested == lower(args[1])
    IN  IF requested \in DOMAIN (IF ros THEN ROS_PROJECTION_SYSTEMS
                                 ELSE PROJECTION_SYSTEMS)
        THEN Save(args, requested, ros, a[1], a[2],
                  IF ros THEN fetch_and_save_ros_projections(requested, a[1], a[2])
                  ELSE fetch_and_save_projections(requested, a[1], a[2]))
        ELSE IF requested = "--help" \/ requested = "-h"
        THEN NoCall(args, ros, "usage")
        ELSE NoCall(args, ros, "unknown system")

\* the pairs of answers tried for a run with a first argument: the API
\* down, empty lists, batters alone, or a short list of each kind
NamedAnswers ==
    { <<Failure, Failure>>, <<Answer(<< >>), Answer(<< >>)>>,
      <<Answer(FewBatters), Failure>>,
      <<Answer(FewBatters), Answer(FewPitchers)>> }

\* a fetcher invoked with one argument
FetchNamed ==
    \E ros \in BOOLEAN : \E word \in Words(ros) : \E a \in NamedAnswers :
        main(<<word>>, ros, a)

NextProj == FetchPreseason \/ FetchRos

SpecProj == Init /\ [][NextProj]_vars

NextMain == FetchNamed

SpecMain == Init /\ [][NextMain]_vars

-----------------------------------------------------------------------------
(* Vocabulary of the properties *)

TeamKeys == DOMAIN TeamInfo

\* the week the last run processed
ProcessedWeek == get_completed_week(resp.current_week, resp.weekday)

Weeks == file.data.weeks

Cumulative == file.data.cumulative

\* the entry stored for the week the last run processed
ThisWeek == SelectSeq(Weeks, LAMBDA w : w.key = ToString(ProcessedWeek))[1].entry

\* the record of team t in a list of records; Missing when there is none
Missing == [stats |-> << >>, team_key |-> "", team_name |-> "", manager |-> ""]

RecordOf(records, t) ==
    LET own == SelectSeq(records, LAMBDA r : r.team_key = t)
    IN  IF own = << >> THEN Missing ELSE own[1]

HasRecord(records, t) == \E i \in 1..Len(records) : records[i].team_key = t

\* the value of stat s for team t in a list of records, 0 when absent
ValueOf(records, t, s) == Get(RecordOf(records, t).stats, s, 0)

\* the arithmetic sum of stat s of team t over the stored weeks
RECURSIVE SumOverWeeks(_, _, _, _)
SumOverWeeks(all_weeks, side, t, s) ==
    IF all_weeks = << >> THEN 0
    ELSE ValueOf(Head(all_weeks).entry[side], t, s)
         + SumOverWeeks(Tail(all_weeks), side, t, s)

Sides == {"hitting", "pitching"}

\* the stat names the provider's stat ids map to
BaseStats(side) ==
    IF side = "hitting"
    THEN {BATTING_STAT_IDS[i] : i \in DOMAIN BATTING_STAT_IDS}
    ELSE {PITCHING_STAT_IDS[i] : i \in DOMAIN PITCHING_STAT_IDS}

ScoringTable(side) ==
    IF side = "hitting" THEN BATTING_SCORING ELSE PITCHING_SCORING

\* the sum of values[k] * table[k] over the stat names k of keys
RECURSIVE WeightedSum(_, _, _)
WeightedSum(keys, values, table) ==
    IF keys = {} THEN 0
    ELSE LET k == CHOOSE x \in keys : TRUE
         IN  Mul(values[k], table[k]) + WeightedSum(keys \ {k}, values, table)

\* the sums of team t's stats over the stored weeks, per stat name of names
Summed(side, t, names) ==
    [s \in names |-> SumOverWeeks(Weeks, side, t, s)]

\* round(x * 9 / ip, 2), and 0 when ip is 0
Rate(x, ip) == IF ip > 0 THEN RoundDiv(x * 9, ip, 2) ELSE 0

\* the records of every stored week and of the cumulative view, per side
AllRecords(side) ==
    UNION {{Weeks[i].entry[side][j] : j \in 1..Len(Weeks[i].entry[side])} :
             i \in 1..Len(Weeks)}
    \cup {Cumulative[side][j] : j \in 1..Len(Cumulative[side])}

Leaders == ThisWeek.categoryLeaders

\* the provider's team order of the last run
Order == [i \in 1..Len(resp.teams) |-> resp.teams[i].team_key]

\* the teams of a list of records
TeamsIn(records) == {records[i].team_key : i \in 1..Len(records)}

\* the largest and the smallest value of category cat among the teams ts
MaxOf(records, ts, cat) ==
    CHOOSE v \in {ValueOf(records, t, cat) : t \in ts} :
        \A t \in ts : ValueOf(records, t, cat) <= v

MinOf(records, ts, cat) ==
    CHOOSE v \in {ValueOf(records, t, cat) : t \in ts} :
        \A t \in ts : ValueOf(records, t, cat) >= v

\* the team earliest in the provider's order among the teams ts
Earliest(ts) ==
    Order[CHOOSE i \in 1..Len(Order) :
            /\ Order[i] \in ts
            /\ \A j \in 1..(i - 1) : Order[j] \notin ts]

\* the teams with innings pitched this week
Pitched == {t \in TeamsIn(ThisWeek.pitching) : ValueOf(ThisWeek.pitching, t, "IP") > 0}

\* the last run found a document and loaded it, and the week it processed was
\* already stored ahead of another week: the run overwrote an entry
Overwrote ==
    /\ log = "loaded"
    /\ Len(Weeks) >= 2
    /\ Weeks[1].key = ToString(ProcessedWeek)

-----------------------------------------------------------------------------
(* Properties *)

\* C1: idempotence of the week merge.  Whatever weeks are stored, running the
\* pipeline again on the answers of the last run (same week, same per-team
\* stats) leaves the cumulative view exactly as the last run wrote it.
C1_Idempotent ==
    file.exists =>
        Updated(file.data, ProcessedWeek, resp.teams, resp.scoreboard).cumulative
            = Cumulative

\* a run overwrote a stored week and both teams have cumulative totals
C1_Witness ==
    /\ file.exists
    /\ Overwrote
    /\ Len(Cumulative.hitting) = 2
    /\ Len(ThisWeek.hitting) = 2

\* C3: summation correctness.  For every team and every base stat, the value
\* in cumulative equals the arithmetic sum of the team's values of that stat
\* over the stored weeks, a stat (or the team) missing from a week counting 0.
C3_Summation ==
    file.exists =>
        \A side \in Sides : \A t \in TeamKeys : \A s \in BaseStats(side) :
            ValueOf(Cumulative[side], t, s) = SumOverWeeks(Weeks, side, t, s)

\* two stored weeks in which team A drove in 0.7 and 1 runs: 1.7 in all
C3_Witness ==
    /\ file.exists
    /\ Len(Weeks) = 2
    /\ ValueOf(Weeks[1].entry.hitting, "A", "RBI") = 700
    /\ ValueOf(Weeks[2].entry.hitting, "A", "RBI") = 1000
    /\ ValueOf(Cumulative.hitting, "A", "RBI") = 1700

\* C4: after every completed run the persisted cumulative is
\* calculate_cumulative_stats of the persisted weeks, whatever cumulative the
\* loaded document held.
C4_Derived ==
    file.exists => Cumulative = calculate_cumulative_stats(Weeks)

\* a re-run replaced a stored week by an entry without team A, whose totals
\* now come from the other week alone
C4_Witness ==
    /\ file.exists
    /\ Overwrote
    /\ ~HasRecord(ThisWeek.hitting, "A")
    /\ HasRecord(Cumulative.hitting, "A")

\* C2 (as claimed): in cumulative, ERA and K/9 are recomputed from the summed
\* base stats and Points is the weighted sum of the summed stats over the
\* scoring table, rounded to 1 decimal.
C2_Recomputed ==
    file.exists =>
        \A side \in Sides : \A t \in TeamsIn(Cumulative[side]) :
            LET table == ScoringTable(side)
                summed == Summed(side, t, DOMAIN table)
            IN  /\ ValueOf(Cumulative[side], t, "Points")
                     = Round(WeightedSum(DOMAIN table, summed, table), 1)
                /\ side = "pitching" =>
                     /\ ValueOf(Cumulative[side], t, "ERA")
                          = Rate(summed["ER"], summed["IP"])
                     /\ ValueOf(Cumulative[side], t, "K/9")
                          = Rate(summed["K"], summed["IP"])

\* C2 (amended): in cumulative, ERA and K/9 are recomputed from the summed
\* base stats, and Points is the sum of the team's weekly Points values,
\* rounded to 1 decimal.
C2_Amended ==
    file.exists =>
        \A side \in Sides : \A t \in TeamsIn(Cumulative[side]) :
            LET summed == Summed(side, t, {"Points", "ER", "K", "IP"})
            IN  /\ ValueOf(Cumulative[side], t, "Points")
                     = Round(summed["Points"], 1)
                /\ side = "pitching" =>
                     /\ ValueOf(Cumulative[side], t, "ERA")
                          = Rate(summed["ER"], summed["IP"])
                     /\ ValueOf(Cumulative[side], t, "K/9")
                          = Rate(summed["K"], summed["IP"])

\* two stored weeks after which team A's cumulative ERA and K/9 are not the
\* sums of its weekly ERA and K/9, and its cumulative hitting Points differ
\* from the weighted sum of its summed stats
C2_Witness ==
    /\ file.exists
    /\ Len(Weeks) = 2
    /\ ValueOf(Cumulative.pitching, "A", "IP") > 0
    /\ ValueOf(Cumulative.pitching, "A", "ERA")
         # SumOverWeeks(Weeks, "pitching", "A", "ERA")
    /\ ValueOf(Cumulative.pitching, "A", "K/9")
         # SumOverWeeks(Weeks, "pitching", "A", "K/9")
    /\ ValueOf(Cumulative.hitting, "A", "Points")
         # Round(WeightedSum(DOMAIN BATTING_SCORING,
                             Summed("hitting", "A", DOMAIN BATTING_SCORING),
                             BATTING_SCORING), 1)

\* C5 (as claimed): in every record get_team_stats builds, Points is the sum
\* of record[k] * weight[k] over the stat names k in both the finished record
\* and the scoring table, rounded to 1 decimal.
C5_WeightedSum ==
    file.exists =>
        \A side \in Sides : \A i \in 1..Len(ThisWeek[side]) :
            LET stats == ThisWeek[side][i].stats
                table == ScoringTable(side)
            IN  stats["Points"]
                  = Round(WeightedSum(DOMAIN stats \cap DOMAIN table, stats, table), 1)

\* C6: in every weekly and every cumulative pitching record, ERA and K/9 are
\* 0 when IP is 0 or absent, and otherwise IP is positive, ERA is
\* round(ER*9/IP, 2) and K/9 is round(K*9/IP, 2).
C6_Rates ==
    file.exists =>
        \A r \in AllRecords("pitching") :
            LET ip == Get(r.stats, "IP", 0)
            IN  IF ip = 0
                THEN r.stats["ERA"] = 0 /\ r.stats["K/9"] = 0
                ELSE /\ ip > 0
                     /\ r.stats["ERA"] = RoundDiv(Get(r.stats, "ER", 0) * 9, ip, 2)
                     /\ r.stats["K/9"] = RoundDiv(Get(r.stats, "K", 0) * 9, ip, 2)

\* a week in which team A allowed a run with a blank IP (ERA 0) and team B
\* has no IP at all, beside a week with 0.7 IP: weekly ERA 12.86 (1 ER),
\* cumulative ERA 25.71 (2 ER)
C6_Witness ==
    /\ file.exists
    /\ Len(Weeks) = 2
    /\ \E i, j \in 1..2 :
        LET a == RecordOf(Weeks[i].entry.pitching, "A").stats
            b == RecordOf(Weeks[i].entry.pitching, "B").stats
            c == RecordOf(Weeks[j].entry.pitching, "A").stats
        IN  /\ "IP" \in DOMAIN a /\ a["IP"] = 0 /\ a["ER"] = 1000 /\ a["ERA"] = 0
            /\ "ERA" \in DOMAIN b /\ "IP" \notin DOMAIN b /\ b["ERA"] = 0
            /\ "ERA" \in DOMAIN c /\ c["ERA"] = 12860
    /\ ValueOf(Cumulative.pitching, "A", "ERA") = 25710
    /\ ValueOf(Cumulative.pitching, "A", "K/9") = 25710

\* C7 (as claimed): for every category of the fixed list, ERA included, a
\* leading value (the largest value among the week's teams; for ERA the
\* lowest ERA among the teams with IP > 0) of 0 leaves the category out of
\* CategoryLeaders.
C7_ZeroOmitted ==
    file.exists =>
        /\ \A cat \in hitting_cats :
             LET ts == TeamsIn(ThisWeek.hitting)
             IN  (ts # {} /\ MaxOf(ThisWeek.hitting, ts, cat) = 0)
                     => cat \notin DOMAIN Leaders
        /\ \A cat \in pitching_cats :
             LET ts == TeamsIn(ThisWeek.pitching)
             IN  (ts # {} /\ MaxOf(ThisWeek.pitching, ts, cat) = 0)
                     => cat \notin DOMAIN Leaders
        /\ (Pitched # {} /\ MinOf(ThisWeek.pitching, Pitched, "ERA") = 0)
               => "ERA" \notin DOMAIN Leaders

\* C7 (amended): for every category other than ERA, a largest value of 0
\* among the week's teams leaves the category out of CategoryLeaders; ERA is
\* in CategoryLeaders exactly when some team has IP > 0, a leading ERA of 0
\* included.
C7_Amended ==
    file.exists =>
        /\ \A cat \in hitting_cats :
             LET ts == TeamsIn(ThisWeek.hitting)
             IN  (ts # {} /\ MaxOf(ThisWeek.hitting, ts, cat) = 0)
                     => cat \notin DOMAIN Leaders
        /\ \A cat \in pitching_cats :
             LET ts == TeamsIn(ThisWeek.pitching)
             IN  (ts # {} /\ MaxOf(ThisWeek.pitching, ts, cat) = 0)
                     => cat \notin DOMAIN Leaders
        /\ "ERA" \in DOMAIN Leaders <=> Pitched # {}

\* a week with two teams where nobody drove in a run or struck anyone out
\* (RBI and K left out) and the best ERA is 0 (ERA kept, with value 0)
C7_Witness ==
    /\ file.exists
    /\ Len(ThisWeek.hitting) = 2
    /\ "RBI" \notin DOMAIN Leaders
    /\ "K" \notin DOMAIN Leaders
    /\ "ERA" \in DOMAIN Leaders
    /\ Leaders["ERA"].value = 0

\* C8: for each category other than ERA in CategoryLeaders, the recorded value
\* is the largest value of the category among the week's teams and the
\* recorded team is the earliest team in the provider's order that holds it;
\* the ERA leader is the earliest team in the provider's order with the lowest
\* ERA among the teams with IP > 0, and the recorded value is that ERA.
C8_Leaders ==
    file.exists =>
        /\ \A cat \in DOMAIN Leaders \ {"ERA"} :
             LET records == IF cat \in hitting_cats THEN ThisWeek.hitting
                            ELSE ThisWeek.pitching
                 ts == TeamsIn(records)
                 top == MaxOf(records, ts, cat)
             IN  /\ Leaders[cat].value = top
                 /\ Leaders[cat].team_key
                      = Earliest({t \in ts : ValueOf(records, t, cat) = top})
        /\ "ERA" \in DOMAIN Leaders =>
             LET low == MinOf(ThisWeek.pitching, Pitched, "ERA")
             IN  /\ Pitched # {}
                 /\ Leaders["ERA"].value = low
                 /\ Leaders["ERA"].team_key
                      = Earliest({t \in Pitched :
                                    ValueOf(ThisWeek.pitching, t, "ERA") = low})

\* the provider lists team B first and both teams have 0.7 RBI: B leads RBI;
\* team A has the lower ERA (0) but no innings pitched: B, with 12.86, leads ERA
C8_Witness ==
    /\ file.exists
    /\ Order = <<"B", "A">>
    /\ ValueOf(ThisWeek.hitting, "A", "RBI") = 700
    /\ ValueOf(ThisWeek.hitting, "B", "RBI") = 700
    /\ "RBI" \in DOMAIN Leaders /\ Leaders["RBI"].team_key = "B"
    /\ HasRecord(ThisWeek.pitching, "A")
    /\ ValueOf(ThisWeek.pitching, "A", "ERA") = 0
    /\ Pitched = {"B"}
    /\ "ERA" \in DOMAIN Leaders
    /\ Leaders["ERA"] = [value |-> 12860, team_key |-> "B"]

\* the provider's answers of the end-to-end example: week 1, team A with
\* HR=1 and RBI=2 (in either order), team B with an empty stat list
IsExample ==
    /\ file.exists
    /\ ProcessedWeek = 1
    /\ Len(resp.teams) = 2
    /\ \E i, j \in 1..2 :
        /\ resp.teams[i].team_key = "A" /\ resp.teams[i].ok
        /\ resp.teams[i].stats \in { <<Stat(63, "1"), Stat(13, "2")>>,
                                    <<Stat(13, "2"), Stat(63, "1")>> }
        /\ resp.teams[j].team_key = "B" /\ resp.teams[j].ok
        /\ resp.teams[j].stats = << >>

\* C9: in the end-to-end example CategoryLeaders['HR'] is {team_key: A,
\* value: 1}, team B leads no category, and team A's hitting Points is 14.2.
C9_Example ==
    IsExample =>
        /\ "HR" \in DOMAIN Leaders
        /\ Leaders["HR"] = [value |-> 1000, team_key |-> "A"]
        /\ \A cat \in DOMAIN Leaders : Leaders[cat].team_key # "B"
        /\ ValueOf(ThisWeek.hitting, "A", "Points") = 14200

\* the example with team B first in the provider's order
C9_Witness ==
    /\ IsExample
    /\ Order = <<"B", "A">>
    /\ HasRecord(ThisWeek.hitting, "B")

\* C10: a run that loads an existing document sets currentWeek to the
\* processed week, stores the WeekEntry under that week's number as a string,
\* and writes every other entry of weeks back unchanged: the keys afterwards
\* are the keys before plus that one.
C10_Frame ==
    [][log' = "loaded" =>
         LET key == ToString(ProcessedWeek')
             keysBefore == {Weeks[i].key : i \in 1..Len(Weeks)}
             keysAfter == {Weeks'[i].key : i \in 1..Len(Weeks')}
         IN  /\ file'.data.currentWeek = ProcessedWeek'
             /\ keysAfter = keysBefore \cup {key}
             /\ Len(Weeks') = Cardinality(keysAfter)
             /\ \A i \in 1..Len(Weeks) :
                    Weeks[i].key # key => \E j \in 1..Len(Weeks') : Weeks'[j] = Weeks[i]
             /\ \E j \in 1..Len(Weeks') :
                    /\ Weeks'[j].key = key
                    /\ Weeks'[j].entry = WeekEntry(resp'.teams, resp'.scoreboard)
    ]_vars

\* a run loaded a document and left another week's non-empty entry in it
C10_Witness ==
    /\ file.exists
    /\ log = "loaded"
    /\ \E i \in 1..Len(Weeks) :
        /\ Weeks[i].key # ToString(ProcessedWeek)
        /\ Len(Weeks[i].entry.hitting) = 2

-----------------------------------------------------------------------------
(* Error handling and the command line of the collector *)

\* the keys of the stored weeks, in the order of the dictionary
WeekKeys(d) == [i \in 1..Len(d.weeks) |-> d.weeks[i].key]

\* the last invocation ran collect_weekly_stats to its end
Completed == log \in {"cold start", "loaded", "could not load"}

\* the teams of the last run whose stats were fetched, in provider order
Fetched == SelectSeq(resp.teams, LAMBDA t : t.ok)

\* C11: a run that finds no season file starts from the empty document and
\* persists a document whose only week is the processed one, stored under
\* its number, with the cumulative view equal to that week's records
C11_ColdStart ==
    [][~file.exists =>
         /\ file'.exists
         /\ log' = "cold start"
         /\ WeekKeys(file'.data) = <<ToString(file'.data.currentWeek)>>
         /\ file'.data.weeks[1].entry = WeekEntry(resp'.teams, resp'.scoreboard)
         /\ file'.data.cumulative
              = [hitting |-> file'.data.weeks[1].entry.hitting,
                 pitching |-> file'.data.weeks[1].entry.pitching]]_vars

C11_Witness ==
    /\ log = "cold start"
    /\ Len(Weeks) = 1
    /\ ValueOf(Cumulative.hitting, "A", "RBI") = 700
    /\ ValueOf(Cumulative.pitching, "A", "ERA") = 12860

\* C12: a team whose stats fetch raises is in neither list of the week; the
\* lists hold, in provider order, exactly the records of the other teams,
\* each computed from that team's own stat list; the document is persisted
C12_TeamSkipped ==
    file.exists =>
        /\ \A i \in 1..Len(resp.teams) :
              ~resp.teams[i].ok =>
                  /\ ~HasRecord(ThisWeek.hitting, resp.teams[i].team_key)
                  /\ ~HasRecord(ThisWeek.pitching, resp.teams[i].team_key)
        /\ ThisWeek.hitting
             = [i \in 1..Len(Fetched) |-> TeamRecords(Fetched[i]).hitting]
        /\ ThisWeek.pitching
             = [i \in 1..Len(Fetched) |-> TeamRecords(Fetched[i]).pitching]

C12_Witness ==
    /\ file.exists
    /\ Order = <<"A", "B">>
    /\ ~resp.teams[1].ok
    /\ resp.teams[2].ok
    /\ TeamsIn(ThisWeek.hitting) = {"B"}
    /\ TeamsIn(ThisWeek.pitching) = {"B"}
    /\ ValueOf(ThisWeek.pitching, "B", "ERA") = 12860

\* C14: an invocation that finds neither the environment credentials nor a
\* local oauth file leaves the season file as it was
C14_NoCredentials ==
    [][(~inv'.env /\ ~inv'.oauth_file) => file' = file]_vars

C14_Witness ==
    /\ log = "no credentials"
    /\ ~inv.env
    /\ ~inv.oauth_file
    /\ inv.argv = << >>
    /\ file.exists

\* C15: a default run processes the week before the provider's current
\* week (never below 1), whatever the day of the week
C15_CompletedWeek ==
    (Completed /\ inv.argv = << >>) =>
        /\ file.data.currentWeek
             = (IF resp.current_week - 1 > 1 THEN resp.current_week - 1 ELSE 1)
        /\ \E i \in 1..Len(Weeks) : Weeks[i].key = ToString(file.data.currentWeek)

\* C20: a run invoked with --week N stores the entry under key N and sets
\* currentWeek to N
C20_WeekN ==
    (Completed /\ Len(inv.argv) = 2) =>
        /\ file.data.currentWeek = inv.argv[2]
        /\ \E i \in 1..Len(Weeks) : Weeks[i].key = ToString(inv.argv[2])

-----------------------------------------------------------------------------
(* The projection documents *)

\* the written documents
Documents == {docs[f] : f \in DOMAIN docs}

\* the last call fetched pitchers as well (every system but a batters-only
\* rest-of-season one)
FetchedPitchers ==
    ~(fetched.ros /\ fetched.output_name \in DOMAIN ROS_PROJECTION_SYSTEMS
      /\ ROS_PROJECTION_SYSTEMS[fetched.output_name] \in BATTERS_ONLY_SYSTEMS)

\* the last call got data and wrote its document
Wrote ==
    \/ fetched.bat.ok /\ fetched.bat.data # << >>
    \/ FetchedPitchers /\ fetched.pit.ok /\ fetched.pit.data # << >>

\* the document of the system fetched last
LastDoc == docs[OutputFile(fetched.output_name, fetched.ros)]

\* the last call cuts its lists to TOP_N
Truncating ==
    ~fetched.ros /\ fetched.output_name \notin FULL_PLAYER_LIST_SYSTEMS

NamesOf(players) == {players[i].name : i \in 1..Len(players)}

\* the source players of the last call that can be processed and whose
\* playing time, as sent by the API, reaches the threshold
QualifiedBatters ==
    LET min_pa == IF fetched.ros THEN ROS_MIN_PA ELSE MIN_PA
        src == fetched.bat.data
    IN  {src[i] : i \in {j \in 1..Len(src) :
                           /\ ~Raises(src[j], BatterKeys)
                           /\ Field(src[j], "PA") >= min_pa * 1000}}

QualifiedPitchers ==
    LET min_ip == IF fetched.ros THEN ROS_MIN_IP ELSE MIN_IP
        src == IF FetchedPitchers THEN fetched.pit.data ELSE << >>
    IN  {src[i] : i \in {j \in 1..Len(src) :
                           /\ ~Raises(src[j], PitcherKeys)
                           /\ Field(src[j], "IP") >= min_ip * 1000}}

QualifiedBatterNames == {x.name : x \in QualifiedBatters}

QualifiedPitcherNames == {x.name : x \in QualifiedPitchers}

\* the list is in non-increasing order of projected_points
NonIncreasing(players) ==
    \A i \in 1..(Len(players) - 1) :
        players[i].projected_points >= players[i + 1].projected_points

\* C13: a call in which a fetch failed writes no document
C13_SystemSkipped ==
    [][(~fetched'.bat.ok \/ ~fetched'.pit.ok) => docs' = docs]_vars

\* C16: no written batter list holds a batter under the PA threshold of its
\* fetcher (50 preseason, 20 rest of season), no pitcher list a pitcher under
\* the IP threshold (10, 5); every source player that reaches the threshold
\* and is processed without error passes the filter: it is in the document,
\* or one of the TOP_N kept when the list is cut
C16_Filtering ==
    /\ \A d \in Documents :
          /\ \A i \in 1..Len(d.batters) :
                d.batters[i].stats["PA"]
                  >= (IF d.is_ros THEN ROS_MIN_PA ELSE MIN_PA) * 1000
          /\ \A i \in 1..Len(d.pitchers) :
                d.pitchers[i].stats["IP"]
                  >= (IF d.is_ros THEN ROS_MIN_IP ELSE MIN_IP) * 1000
    /\ Wrote =>
          /\ NamesOf(LastDoc.batters) \subseteq QualifiedBatterNames
          /\ NamesOf(LastDoc.pitchers) \subseteq QualifiedPitcherNames
          /\ (~Truncating \/ Cardinality(QualifiedBatters) <= TOP_N)
                => NamesOf(LastDoc.batters) = QualifiedBatterNames
          /\ (~Truncating \/ Cardinality(QualifiedPitchers) <= TOP_N)
                => NamesOf(LastDoc.pitchers) = QualifiedPitcherNames
          /\ Len(LastDoc.batters)
               = (IF Truncating /\ Cardinality(QualifiedBatters) > TOP_N
                  THEN TOP_N ELSE Cardinality(QualifiedBatters))
          /\ Len(LastDoc.pitchers)
               = (IF Truncating /\ Cardinality(QualifiedPitchers) > TOP_N
                  THEN TOP_N ELSE Cardinality(QualifiedPitchers))

C16_Witness ==
    /\ {<<"data/projections", "steamer">>, <<"data/projections/ros", "ros_steamer">>}
         \subseteq DOMAIN docs
    /\ Len(docs[<<"data/projections", "steamer">>].batters) = 2
    /\ docs[<<"data/projections", "steamer">>].batters[1].name = "b3"
    /\ docs[<<"data/projections", "steamer">>].batters[2].name = "b6"
    /\ NamesOf(docs[<<"data/projections", "steamer">>].pitchers) = {"p3", "p7", "p6"}
    /\ NamesOf(docs[<<"data/projections/ros", "ros_steamer">>].batters)
         = {"b5", "b3", "b6", "b1"}
    /\ NamesOf(docs[<<"data/projections/ros", "ros_steamer">>].pitchers)
         = {"p3", "p7", "p6", "p4", "p1"}
    /\ fetched.output_name = "ros_steamer"
    /\ Len(fetched.bat.data) = 6

\* C17: a preseason document of a system outside the full-list set has at
\* most TOP_N batters and at most TOP_N pitchers; the document of a full-list
\* system holds every player that passed the playing-time filter
C17_Truncation ==
    /\ \A d \in Documents :
          (~d.is_ros /\ d.projection_type \notin FULL_PLAYER_LIST_SYSTEMS) =>
              /\ Len(d.batters) <= TOP_N
              /\ Len(d.pitchers) <= TOP_N
    /\ (Wrote /\ ~fetched.ros /\ fetched.output_name \in FULL_PLAYER_LIST_SYSTEMS) =>
          /\ NamesOf(LastDoc.batters) = QualifiedBatterNames
          /\ Len(LastDoc.batters) = Cardinality(QualifiedBatters)
          /\ NamesOf(LastDoc.pitchers) = QualifiedPitcherNames
          /\ Len(LastDoc.pitchers) = Cardinality(QualifiedPitchers)

C17_Witness ==
    /\ {<<"data/projections", "steamer">>, <<"data/projections", "zips">>}
         \subseteq DOMAIN docs
    /\ Len(docs[<<"data/projections", "steamer">>].batters) = TOP_N
    /\ Len(docs[<<"data/projections", "steamer">>].pitchers) = TOP_N
    /\ Len(docs[<<"data/projections", "zips">>].batters) > TOP_N
    /\ Len(docs[<<"data/projections", "zips">>].pitchers) > TOP_N
    /\ fetched.output_name = "zips"
    /\ Cardinality(QualifiedBatters) < Len(fetched.bat.data)

\* C18: the batters and the pitchers of every written document are in
\* non-increasing order of projected_points; when a list was cut to TOP_N,
\* no source player left out by the cut has more points than a kept one
C18_Sorted ==
    /\ \A d \in Documents : NonIncreasing(d.batters) /\ NonIncreasing(d.pitchers)
    /\ (Wrote /\ Truncating) =>
          /\ \A x \in QualifiedBatters :
                x.name \notin NamesOf(LastDoc.batters) =>
                    \A i \in 1..Len(LastDoc.batters) :
                        Batter(x).projected_points
                          <= LastDoc.batters[i].projected_points
          /\ \A x \in QualifiedPitchers :
                x.name \notin NamesOf(LastDoc.pitchers) =>
                    \A i \in 1..Len(LastDoc.pitchers) :
                        Pitcher(x, FALSE).projected_points
                          <= LastDoc.pitchers[i].projected_points

C18_Witness ==
    /\ Wrote
    /\ Truncating
    /\ Len(LastDoc.batters) = TOP_N
    /\ LastDoc.batters[1].projected_points > LastDoc.batters[TOP_N].projected_points
    /\ \E x \in QualifiedBatters : x.name \notin NamesOf(LastDoc.batters)
    /\ \E x \in QualifiedPitchers : x.name \notin NamesOf(LastDoc.pitchers)
    /\ fetched.bat.data[1].name = "1"
    /\ LastDoc.batters[1].name # "1"

\* GS / max(G, 1) >= 0.5 for whole numbers of starts and games
HalfStarts(gs, g) == 2 * gs >= (IF g > 1 THEN g ELSE 1)

\* C19: in both fetchers a pitcher is SP exactly when GS / max(G, 1) >= 0.5
\* and RP otherwise, for every written pitcher and for every pair of whole
\* numbers GS, G in -MaxGames..MaxGames
C19_Position ==
    /\ \A d \in Documents :
          \A i \in 1..Len(d.pitchers) :
              LET x == d.pitchers[i]
              IN  x.position
                    = (IF HalfStarts(x.stats["GS"] \div 1000, x.stats["G"] \div 1000)
                       THEN "SP" ELSE "RP")
    /\ \A gs \in -MaxGames..MaxGames, g \in -MaxGames..MaxGames :
          /\ Position(1000 * gs, 1000 * g)
               = (IF HalfStarts(gs, g) THEN "SP" ELSE "RP")
          /\ RosPosition(1000 * gs, 1000 * g)
               = (IF HalfStarts(gs, g) THEN "SP" ELSE "RP")

C19_Witness ==
    /\ {<<"data/projections", "steamer">>, <<"data/projections/ros", "ros_steamer">>}
         \subseteq DOMAIN docs
    /\ \A f \in {<<"data/projections", "steamer">>,
                 <<"data/projections/ros", "ros_steamer">>} :
          /\ \E i \in 1..Len(docs[f].pitchers) :
                /\ docs[f].pitchers[i].name = "p3"
                /\ docs[f].pitchers[i].position = "SP"
          /\ \E i \in 1..Len(docs[f].pitchers) :
                /\ docs[f].pitchers[i].name = "p7"
                /\ docs[f].pitchers[i].position = "SP"
          /\ \E i \in 1..Len(docs[f].pitchers) :
                /\ docs[f].pitchers[i].name = "p6"
                /\ docs[f].pitchers[i].stats["GS"] < 0
                /\ docs[f].pitchers[i].position = "RP"
    /\ \E i \in 1..Len(docs[<<"data/projections/ros", "ros_steamer">>].pitchers) :
          /\ docs[<<"data/projections/ros", "ros_steamer">>].pitchers[i].name = "p1"
          /\ docs[<<"data/projections/ros", "ros_steamer">>].pitchers[i].position = "RP"


-----------------------------------------------------------------------------
(* Stat-id normalisation *)

\* the stat ids either map knows
KnownIds == DOMAIN BATTING_STAT_IDS \cup DOMAIN PITCHING_STAT_IDS

\* a team's answer without the entries whose stat_id no map knows
WithoutUnknown(t) ==
    [t EXCEPT !.stats = SelectSeq(t.stats, LAMBDA st : st.stat_id \in KnownIds)]

\* the keys get_team_stats adds to a record besides the mapped stat names
DerivedKeys(side) ==
    IF side = "hitting" THEN {"Points"} ELSE {"Points", "ERA", "K/9"}

\* C22: a provider entry whose stat_id is in neither map adds no key to
\* either record, does not change either record's Points and raises no
\* error: every fetched team has both records, their keys are mapped stat
\* names or derived keys, and the records are the ones the stat list gives
\* once its unknown entries are removed.
C22_UnknownDropped ==
    file.exists =>
        \A i \in 1..Len(Fetched) :
            /\ \A side \in Sides :
                  /\ HasRecord(ThisWeek[side], Fetched[i].team_key)
                  /\ DOMAIN RecordOf(ThisWeek[side], Fetched[i].team_key).stats
                       \subseteq BaseStats(side) \cup DerivedKeys(side)
            /\ RecordOf(ThisWeek.hitting, Fetched[i].team_key)
                 = TeamRecords(WithoutUnknown(Fetched[i])).hitting
            /\ RecordOf(ThisWeek.pitching, Fetched[i].team_key)
                 = TeamRecords(WithoutUnknown(Fetched[i])).pitching

\* team A's list was an RBI entry and an entry with the unknown id 99: the
\* records hold the RBI and its points, and nothing of the other entry
C22_Witness ==
    /\ file.exists
    /\ \E i \in 1..Len(Fetched) :
          /\ Fetched[i].team_key = "A"
          /\ Fetched[i].stats = <<Stat(13, "1"), Stat(99, "2")>>
    /\ RecordOf(ThisWeek.hitting, "A").stats = ("Points" :> 1900) @@ ("RBI" :> 1000)
    /\ RecordOf(ThisWeek.pitching, "A").stats
         = ("Points" :> 0) @@ ("ERA" :> 0) @@ ("K/9" :> 0)


\* the stat names both stat-ID maps produce
SharedNames == BaseStats("hitting") \cap BaseStats("pitching")

\* the entries of a stat list whose stat_id is one of ids, in list order
EntriesOf(stats, ids) == SelectSeq(stats, LAMBDA st : st.stat_id \in ids)

\* the value the last entry of a non-empty stat list parses to
LastValue(stats) == safe_float(stats[Len(stats)].value)

\* C23 (as claimed): no stat name the batting map produces is produced by
\* the pitching map, so the two records of a team share no stat name.
C23_Disjoint ==
    file.exists =>
        /\ SharedNames = {}
        /\ \A i \in 1..Len(Fetched) :
              (DOMAIN RecordOf(ThisWeek.hitting, Fetched[i].team_key).stats
                 \cap DOMAIN RecordOf(ThisWeek.pitching, Fetched[i].team_key).stats)
              \subseteq {"Points"}

\* C23 (amended): the two maps share the stat names BB and K and no other;
\* the records are separate dictionaries, and a shared name holds, in the
\* hitting record, the last value reported under a batting id of that name
\* and, in the pitching record, the last value reported under a pitching id
\* of that name.
C23_Amended ==
    /\ SharedNames = {"BB", "K"}
    /\ file.exists =>
          \A i \in 1..Len(Fetched) : \A s \in SharedNames :
              LET bat == EntriesOf(Fetched[i].stats,
                                   {id \in DOMAIN BATTING_STAT_IDS :
                                      BATTING_STAT_IDS[id] = s})
                  pit == EntriesOf(Fetched[i].stats,
                                   {id \in DOMAIN PITCHING_STAT_IDS :
                                      PITCHING_STAT_IDS[id] = s})
                  h == RecordOf(ThisWeek.hitting, Fetched[i].team_key).stats
                  p == RecordOf(ThisWeek.pitching, Fetched[i].team_key).stats
              IN  /\ s \in DOMAIN h <=> bat # << >>
                  /\ s \in DOMAIN h => h[s] = LastValue(bat)
                  /\ s \in DOMAIN p <=> pit # << >>
                  /\ s \in DOMAIN p => p[s] = LastValue(pit)

\* team A's list reported 2 batter strikeouts and 1 pitcher strikeout: both
\* records have a K, each its own
C23_Witness ==
    /\ file.exists
    /\ \E i \in 1..Len(Fetched) :
          /\ Fetched[i].team_key = "A"
          /\ Fetched[i].stats = <<Stat(14, "2"), Stat(42, "1")>>
    /\ ValueOf(ThisWeek.hitting, "A", "K") = 2000
    /\ ValueOf(ThisWeek.pitching, "A", "K") = 1000

\* C27 (as claimed): every stat name the batting map produces has a weight
\* in the batting scoring table, and a stat list that is one entry of batting
\* stat id 14 gives hitting Points of value * (SO weight), rounded to 1
\* decimal.
C27_StrikeoutsWeighted ==
    file.exists =>
        /\ BaseStats("hitting") \subseteq DOMAIN BATTING_SCORING
        /\ \A i \in 1..Len(Fetched) :
              (Len(Fetched[i].stats) = 1 /\ Fetched[i].stats[1].stat_id = 14) =>
                  ValueOf(ThisWeek.hitting, Fetched[i].team_key, "Points")
                    = Round(Mul(LastValue(Fetched[i].stats), BATTING_SCORING["SO"]), 1)

\* C28 (as claimed): no stat_id is in both stat-ID maps, and a stat list of
\* one entry leaves at least one of the team's two records as it is for an
\* empty stat list.
C28_OneRecordPerEntry ==
    file.exists =>
        /\ DOMAIN BATTING_STAT_IDS \cap DOMAIN PITCHING_STAT_IDS = {}
        /\ \A i \in 1..Len(Fetched) :
              Len(Fetched[i].stats) = 1 =>
                  LET none == TeamRecords([Fetched[i] EXCEPT !.stats = << >>])
                  IN  \/ RecordOf(ThisWeek.hitting, Fetched[i].team_key) = none.hitting
                      \/ RecordOf(ThisWeek.pitching, Fetched[i].team_key) = none.pitching


-----------------------------------------------------------------------------
(* What a run keeps of the persisted document *)

\* the entry stored under key in the weeks of a document; key is stored
EntryAt(weeks, key) == SelectSeq(weeks, LAMBDA w : w.key = key)[1].entry

\* the week of key is stored in the weeks of a document
Stored(weeks, key) == \E i \in 1..Len(weeks) : weeks[i].key = key

\* C25 (as claimed): every week stored in the persisted document before a
\* run is stored after it with the same entry, unless it is the week the run
\* processed, also when the existing file could not be loaded.
C25_WeeksKept ==
    [][file.exists =>
         \A i \in 1..Len(Weeks) :
             Weeks[i].key # ToString(ProcessedWeek') =>
                 /\ Stored(Weeks', Weeks[i].key)
                 /\ EntryAt(Weeks', Weeks[i].key) = Weeks[i].entry]_vars

\* C26 (as claimed): a run that loads the document and processes a week
\* already stored keeps, for every team whose stats fetch fails, the records
\* the week held for that team, and no cumulative Points of that team drops.
C26_RecordsKept ==
    [][(file.exists /\ log' = "loaded"
          /\ Stored(Weeks, ToString(ProcessedWeek'))) =>
         \A i \in 1..Len(resp'.teams) : \A side \in Sides :
             LET t == resp'.teams[i].team_key
                 before == EntryAt(Weeks, ToString(ProcessedWeek'))[side]
                 after == EntryAt(Weeks', ToString(ProcessedWeek'))[side]
             IN  (~resp'.teams[i].ok /\ HasRecord(before, t)) =>
                     /\ HasRecord(after, t)
                     /\ RecordOf(after, t) = RecordOf(before, t)
                     /\ ValueOf(Cumulative'[side], t, "Points")
                          >= ValueOf(Cumulative[side], t, "Points")]_vars


-----------------------------------------------------------------------------
(* The teams of the cumulative view *)

\* the teams with a record on one side of any stored week
TeamsStored(side) ==
    UNION {TeamsIn(Weeks[i].entry[side]) : i \in 1..Len(Weeks)}

\* the position, in the order of the weeks dictionary, of the first stored
\* week with a record of team t on one side
FirstWeekOf(side, t) ==
    CHOOSE i \in 1..Len(Weeks) :
        /\ HasRecord(Weeks[i].entry[side], t)
        /\ \A j \in 1..(i - 1) : ~HasRecord(Weeks[j].entry[side], t)

\* C30: the cumulative view holds, on each side, exactly one record per
\* team_key that has a record on that side in some stored week, and no other
\* record; a record's team_name and manager are those of the team's record in
\* the first stored week, in the order of the weeks dictionary, that has one.
C30_OneRecordPerTeam ==
    file.exists =>
        \A side \in Sides :
            /\ TeamsIn(Cumulative[side]) = TeamsStored(side)
            /\ Len(Cumulative[side]) = Cardinality(TeamsStored(side))
            /\ \A t \in TeamsStored(side) :
                  LET first == RecordOf(Weeks[FirstWeekOf(side, t)].entry[side], t)
                      total == RecordOf(Cumulative[side], t)
                  IN  /\ total.team_name = first.team_name
                      /\ total.manager = first.manager

\* team A is stored under two names in two weeks and team B in the later
\* week only: one cumulative record each, team A's under the name of the
\* week stored first
C30_Witness ==
    /\ file.exists
    /\ Len(Weeks) = 2
    /\ RecordOf(Weeks[1].entry.hitting, "A").team_name = "Arrows"
    /\ RecordOf(Weeks[2].entry.hitting, "A").team_name = "Aces"
    /\ ~HasRecord(Weeks[1].entry.hitting, "B")
    /\ HasRecord(Weeks[2].entry.hitting, "B")
    /\ Len(Cumulative.hitting) = 2
    /\ RecordOf(Cumulative.hitting, "A").team_name = "Arrows"
    /\ RecordOf(Cumulative.hitting, "A").manager = "amy"
    /\ ValueOf(Cumulative.hitting, "A", "RBI") = 2000


-----------------------------------------------------------------------------
(* The command line and the return value of the projection fetchers *)

\* the systems of the fetcher the last run invoked
SystemsOf(ros) ==
    DOMAIN (IF ros THEN ROS_PROJECTION_SYSTEMS ELSE PROJECTION_SYSTEMS)

\* the raw lists of the last call: what fetch_fangraphs_projections handed
\* back for batters and for pitchers, [] for a request that failed or was
\* not sent
RawBatters(f) == IF f.bat.ok THEN f.bat.data ELSE << >>

RawPitchers(f) ==
    IF f.requests = 2 /\ f.pit.ok THEN f.pit.data ELSE << >>

\* C24: a fetcher invoked with the name of one of its systems (in any case)
\* calls the fetch for that system alone, and every document of another
\* system is afterwards the document it was, no document of another system
\* appearing; invoked with any other word it sends no request and leaves
\* every document as it was.
C24_OnlyNamedSystem ==
    [][fetched'.argv # << >> =>
         LET requested == lower(fetched'.argv[1])
         IN  IF requested \in SystemsOf(fetched'.ros)
             THEN /\ fetched'.output_name = requested
                  /\ fetched'.requests \in {1, 2}
                  /\ \A f \in DOMAIN docs :
                        docs[f].projection_type # requested =>
                            f \in DOMAIN docs' /\ docs'[f] = docs[f]
                  /\ \A f \in DOMAIN docs' :
                        docs'[f].projection_type # requested => f \in DOMAIN docs
             ELSE /\ fetched'.requests = 0
                  /\ fetched'.returned = "not called"
                  /\ docs' = docs]_vars

\* the fetcher was invoked as "ZiPS", wrote the zips document, and the
\* steamer document and a rest-of-season document written before are there
C24_Witness ==
    /\ fetched.argv = <<"ZiPS">>
    /\ fetched.returned = "True"
    /\ OutputFile("zips", FALSE) \in DOMAIN docs
    /\ docs[OutputFile("zips", FALSE)].projection_type = "zips"
    /\ OutputFile("steamer", FALSE) \in DOMAIN docs
    /\ docs[OutputFile("steamer", FALSE)].projection_type = "steamer"
    /\ Len(docs[OutputFile("steamer", FALSE)].pitchers) = 0
    /\ OutputFile("ros_steamer", TRUE) \in DOMAIN docs

\* C29: a call of fetch_and_save_projections or of its rest-of-season
\* counterpart whose batter list and pitcher list are both empty returns
\* False and leaves every document as it was; a call that returns True has
\* written the system's document from the lists it fetched.
C29_ReturnValue ==
    [][fetched'.returned # "not called" =>
         LET f == OutputFile(fetched'.output_name, fetched'.ros)
             nodata == RawBatters(fetched') = << >> /\ RawPitchers(fetched') = << >>
         IN  /\ nodata => (fetched'.returned = "False" /\ docs' = docs)
             /\ fetched'.returned = "True" =>
                   /\ ~nodata
                   /\ f \in DOMAIN docs'
                   /\ docs'[f].projection_type = fetched'.output_name
                   /\ docs'[f].is_ros = fetched'.ros
                   /\ NamesOf(docs'[f].batters) \subseteq NamesOf(RawBatters(fetched'))
                   /\ NamesOf(docs'[f].pitchers) \subseteq NamesOf(RawPitchers(fetched'))
                   /\ \A g \in DOMAIN docs : g # f => g \in DOMAIN docs' /\ docs'[g] = docs[g]
    ]_vars

\* the API answered two empty lists for steamer: the call returned False and
\* the steamer document of an earlier call, with its batters, is in place
C29_Witness ==
    /\ fetched.output_name = "steamer"
    /\ fetched.bat.ok /\ fetched.bat.data = << >>
    /\ fetched.pit.ok /\ fetched.pit.data = << >>
    /\ fetched.returned = "False"
    /\ OutputFile("steamer", FALSE) \in DOMAIN docs
    /\ Len(docs[OutputFile("steamer", FALSE)].batters) > 0


-----------------------------------------------------------------------------
(* Overlapping runs *)

\* run p writes in this step
Writes(p) == runs[p].pc = "loaded" /\ runs'[p].pc = "idle"

\* C21: nothing guards the load-store-write cycle of the season file.  A run
\* that writes while the file still holds the document it loaded (no other
\* run wrote in between, as when runs follow one another) keeps every stored
\* week and adds its own; two runs for different weeks that both load before
\* either writes can leave a document without the week one of them wrote.
C21_SequentialKeeps ==
    [][\A p \in Procs :
         (Writes(p) /\ file.exists /\ file.data = runs[p].held) =>
             /\ Stored(Weeks', ToString(runs[p].week))
             /\ \A i \in 1..Len(Weeks) :
                   /\ Stored(Weeks', Weeks[i].key)
                   /\ Weeks[i].key # ToString(runs[p].week) =>
                         EntryAt(Weeks', Weeks[i].key) = Weeks[i].entry]_vars

\* the lost update: both runs loaded before there was a file and have
\* finished, one stored week 1 and the other week 2, and the persisted
\* document holds week 2 alone
C21_Witness ==
    /\ file.exists
    /\ \A p \in Procs : runs[p].pc = "idle"
    /\ runs["workflow"].wrote = "1"
    /\ runs["manual"].wrote = "2"
    /\ log = "cold start"
    /\ WeekKeys(file.data) = <<"2">>
    /\ TeamsIn(Cumulative.hitting) = {"A", "B"}
    /\ ValueOf(Cumulative.hitting, "A", "RBI") = 1000

====
